---- MODULE Spec2Model ----
(***************************************************************************)
(* Model of the bounded job runner (llama_index/core/async_utils.py:       *)
(* run_jobs, batch_gather, chunks) and of the span wrapper of the          *)
(* instrumentation dispatcher (llama_index/core/instrumentation/           *)
(* dispatcher.py: Dispatcher.span and the propagation walk).               *)
(*                                                                         *)
(* The asyncio event loop is modelled by its FIFO queue of ready handles   *)
(* (variable ready): a task step, a gather done-callback or the wake-up of *)
(* the coroutine awaiting the gather.  The only nondeterminism is the      *)
(* moment at which the external event a job awaits completes (JobEvent)    *)
(* and whether a job suspends at all.                                      *)
(*                                                                         *)
(* Specifications: Spec (run_jobs), SpecBatch (batch_gather), SpecSpan     *)
(* (nested and interleaved span-wrapped calls), SpecTree (handlers         *)
(* registered on the dispatcher tree, events and one span-wrapped call),   *)
(* SpecAnyTree (the same on a tree whose root may propagate).              *)
(***************************************************************************)
EXTENDS Integers, Sequences, FiniteSets, TLC

\* ---------------------------------------------------------------- bounds
MaxJobs == 4
MaxWorkers == 2
MaxBatch == 3
MaxCtx == 2
MaxDepth == 3
MaxSpans == 3
MaxCoros == 1
MaxHandlers == 2
MaxRunJobs == 3
MaxFairJobs == 2
MaxTwoJobs == 2
MaxObjects == 2
MaxAdds == 3
MaxRuns == 3
MaxIter == 3
MaxCaptures == 2
MaxChain == 1
MaxThreadErrors == 1

Jobs == 1..MaxJobs
WorkerCounts == (-1)..MaxWorkers
Values == {"a", "b"}
Raise == "raise"
Behaviours == Values \cup {Raise}

\* the exception object raised by the i-th job
JobErr(i) == "err" \o ToString(i)

\* Token.MISSING / None of the active span id
None == 0

\* ------------------------------------------------------------- dispatchers
Dispatchers == {"root", "core", "async_utils"}
RootName == "root"
ParentName == [d \in Dispatchers |->
                 IF d = "async_utils" THEN "core"
                 ELSE IF d = "core" THEN "root" ELSE ""]
\* Dispatcher.__init__ default propagate=True; the root stops the walk
DefaultPropagate == [d \in Dispatchers |-> d # RootName]

VARIABLES
  propagate,    \* Dispatcher.propagate of each registered dispatcher
  workers,      \* run_jobs argument workers
  njobs,        \* len(jobs)
  behaviour,    \* what the i-th job does once run: returns a value or raises
  rj_pc,        \* position of the run_jobs coroutine
  rj_result,    \* the list run_jobs returned
  rj_error,     \* the exception run_jobs raised
  task,         \* state of the asyncio task of worker(job_i)
  task_result,  \* result or exception stored in the finished task
  sem_value,    \* Semaphore._value
  waiters,      \* Semaphore._waiters (FIFO)
  ready,        \* the event loop's queue of ready handles
  nfinished,    \* gather: nfinished
  outer,        \* gather: the outer future
  active,       \* active_span_id of each execution context
  notes,        \* per span id: notifications its dispatcher's handlers got
  parent_id,    \* per span id: parent_id passed to span_enter
  at_finish,    \* history: task states when run_jobs returned or raised
  done_order,   \* history: the workers in the order in which they finished
  batch_size,   \* batch_gather argument batch_size
  bg_pc,        \* position of the batch_gather coroutine
  bg_chunk,     \* number of the chunk batch_gather is gathering
  bg_output,    \* batch_gather: output
  bg_error,     \* the exception batch_gather raised
  stack,        \* per context: the open span-wrapped calls, innermost last
  next_id,      \* the next fresh span id (uuid4)
  span_info,    \* history per span id: wrapper kind, how the wrapped func ended
  created,      \* per dispatcher: coroutines of its async_wrapper not yet
                \* run, each given by the arguments bound into it
  event_handlers, \* Dispatcher.event_handlers of each dispatcher
  span_handlers,  \* Dispatcher.span_handlers of each dispatcher
  hlog,         \* the handler invocations made by the latest step
  ret,          \* the latest step: what was called and what came back
  tw_pc,        \* two concurrent run_jobs calls: position of each call
  tw_workers,   \* the workers argument of each call
  tw_njobs,     \* len(jobs) of each call
  tw_sem,       \* Semaphore._value of the semaphore each call created
  tw_waiters,   \* Semaphore._waiters of that semaphore
  tw_task,      \* state of the task of worker i of each call
  tw_nfin,      \* gather's nfinished of each call
  tw_ready,     \* the ready queue of the one event loop both calls run on
  tw_active,    \* active_span_id in the context of each task
  tw_parent,    \* parent_id passed to span_enter, per span
  tw_notes,     \* notifications per span
  mg_objs,      \* the Dispatcher objects constructed so far, oldest first
  mg_dispatchers, \* Manager.dispatchers: name -> object (0: name absent)
  mg_added,     \* history: the objects passed to add_dispatcher, in order
  ar_log,       \* asyncio_run: per call so far, its situation and outcome
  lp_sync,      \* LoopComponent._run_component: the call and how it ended
  lp_async,     \* LoopComponent._arun_component: the coroutine's state
  hk_orig,      \* per ExceptionCapture instance: self.original_excepthook
  hk_sys,       \* sys.excepthook: 0 the interpreter's, k instance k's handler
  hk_thread,    \* threading.excepthook, likewise
  hk_log,       \* what the hooks did so far, in order
  hk_pc         \* the process: "running", or "exited" after the main
                \* thread's uncaught exception

vars == <<propagate, workers, njobs, behaviour, rj_pc, rj_result, rj_error,
          task, task_result, sem_value, waiters, ready, nfinished, outer,
          active, notes, parent_id, at_finish, done_order, batch_size, bg_pc,
          bg_chunk, bg_output, bg_error, stack, next_id, span_info, created,
          event_handlers, span_handlers, hlog, ret,
          tw_pc, tw_workers, tw_njobs, tw_sem, tw_waiters, tw_task, tw_nfin,
          tw_ready, tw_active, tw_parent, tw_notes,
          mg_objs, mg_dispatchers, mg_added, ar_log, lp_sync, lp_async,
          hk_orig, hk_sys, hk_thread, hk_log, hk_pc>>

handlerVars == <<event_handlers, span_handlers>>
twoVars == <<tw_pc, tw_workers, tw_njobs, tw_sem, tw_waiters, tw_task, tw_nfin,
             tw_ready, tw_active, tw_parent, tw_notes>>
\* the state of the components modelled apart from the job runner and the
\* span wrapper
managerVars == <<mg_objs, mg_dispatchers, mg_added>>
loopVars == <<lp_sync, lp_async>>
hookVars == <<hk_orig, hk_sys, hk_thread, hk_log, hk_pc>>
otherVars == <<twoVars, managerVars, ar_log, loopVars, hookVars>>
callVars == <<stack, next_id, span_info, created, handlerVars, hlog, ret>>

batchVars == <<batch_size, bg_pc, bg_chunk, bg_output, bg_error>>
runJobsVars == <<workers, rj_pc, rj_result, rj_error, sem_value, waiters,
                 at_finish, done_order>>
spanVars == <<propagate, active, notes, parent_id>>

\* DEFAULT_NUM_WORKERS
DEFAULT_NUM_WORKERS == 4

\* execution contexts: 0 is the task awaiting run_jobs, i the task of worker i
Contexts == 0..MaxJobs
\* span ids: 1 is the run_jobs span, i + 1 the span of worker i
SpanIds == 1..(MaxJobs + 1)
RunJobsSpan == 1
WorkerSpan(i) == i + 1
SpanDispatcher == "async_utils"

Settled == {"done", "failed", "cancelled"}
Holding == {"woken", "running"}

\* ------------------------------------------------------ propagation walk
RECURSIVE WalkFrom(_, _)
WalkFrom(c, prop) ==
  IF ~prop[c] THEN [visited |-> <<c>>, raised |-> FALSE]
  ELSE IF ParentName[c] \notin Dispatchers
       THEN [visited |-> <<c>>, raised |-> TRUE]
       ELSE LET r == WalkFrom(ParentName[c], prop)
            IN  [visited |-> <<c>> \o r.visited, raised |-> r.raised]

\* handlers attached by the user: "bad" raises on every invocation
Handlers == {"h1", "bad"}
Raises(h) == h = "bad"

\* variant: no try/except around the handler call, the loop ends at the
\* first handler that raises and the exception leaves the notification
RECURSIVE HandlerLoop_NoExcept(_, _)
HandlerLoop_NoExcept(hs, rec) ==
  IF hs = <<>> THEN [calls |-> <<>>, raised |-> FALSE]
  ELSE IF Raises(Head(hs))
       THEN [calls |-> <<[rec EXCEPT !.h = Head(hs)]>>, raised |-> TRUE]
       ELSE LET rest == HandlerLoop_NoExcept(Tail(hs), rec)
            IN  [calls |-> <<[rec EXCEPT !.h = Head(hs)]>> \o rest.calls,
                 raised |-> rest.raised]

\* for h in c.event_handlers (c.span_handlers): try: h.handle(...)
\* except BaseException: pass
RECURSIVE HandlerLoop(_, _)
HandlerLoop(hs, rec) ==
  IF hs = <<>> THEN [calls |-> <<>>, raised |-> FALSE]
  ELSE LET rest == HandlerLoop(Tail(hs), rec)
       IN  [calls |-> <<[rec EXCEPT !.h = Head(hs)]>> \o rest.calls,
            raised |-> rest.raised]

\* variant: the walk goes on to the parent whatever the propagate flag says
RECURSIVE Notify_IgnorePropagate(_, _, _, _)
Notify_IgnorePropagate(c, prop, lists, rec) ==
  LET here == HandlerLoop(lists[c], [rec EXCEPT !.disp = c]) IN
  IF ParentName[c] \notin Dispatchers
  THEN [calls |-> here.calls, error |-> IF prop[c] THEN "KeyError" ELSE "none"]
  ELSE LET up == Notify_IgnorePropagate(ParentName[c], prop, lists, rec)
       IN  [calls |-> here.calls \o up.calls, error |-> up.error]

\* c = self; while c: <handler loop>; c = None if not c.propagate else
\* c.parent, where parent is self.manager.dispatchers[self.parent_name]
RECURSIVE Notify(_, _, _, _)
Notify(c, prop, lists, rec) ==
  LET here == HandlerLoop(lists[c], [rec EXCEPT !.disp = c]) IN
  IF here.raised THEN [calls |-> here.calls, error |-> "HandlerError"]
  ELSE IF ~prop[c] THEN [calls |-> here.calls, error |-> "none"]
  ELSE IF ParentName[c] \notin Dispatchers
       THEN [calls |-> here.calls, error |-> "KeyError"]
       ELSE LET up == Notify(ParentName[c], prop, lists, rec)
            IN  [calls |-> here.calls \o up.calls, error |-> up.error]

\* one handler invocation: the dispatcher, the handler, the method, the
\* span id and the payload (parent_id, result, err or err_str)
Invocation(what, id, data) ==
  [disp |-> "", h |-> "", what |-> what, id |-> id, data |-> data]

IdStr(id) == IF id = None THEN "None" ELSE ToString(id)
\* str(e)
Str(e) == "str(" \o e \o ")"
Errors == {"ValueError"}
Args == {"x", "y"}

\* variant: span_drop is notified before the SpanDropEvent is dispatched
Epilogue_DropBeforeEvent(d, prop, evh, sph, id, res) ==
  IF res \in Errors
  THEN [calls |-> Notify(d, prop, sph, Invocation("span_drop", id, res)).calls
                  \o Notify(d, prop, evh,
                            Invocation("event", id, Str(res))).calls,
        out |-> res]
  ELSE [calls |-> Notify(d, prop, sph, Invocation("span_exit", id, res)).calls,
        out |-> res]

\* variant: the wrapper forgets `return result` and swallows the exception
Epilogue_ReturnsNone(d, prop, evh, sph, id, res) ==
  [calls |-> <<>>, out |-> "None"]

\* the try / except / else of the wrapper at handler level, func having
\* ended with res: the invocations made and what leaves the wrapper
Epilogue(d, prop, evh, sph, id, res) ==
  IF res \in Errors
  THEN LET ev == Notify(d, prop, evh, Invocation("event", id, Str(res)))
           dr == Notify(d, prop, sph, Invocation("span_drop", id, res))
       IN  IF ev.error # "none"
           THEN [calls |-> ev.calls, out |-> ev.error]
           ELSE [calls |-> ev.calls \o dr.calls,
                 out |-> IF dr.error # "none" THEN dr.error ELSE res]
  ELSE LET ex == Notify(d, prop, sph, Invocation("span_exit", id, res))
       IN  [calls |-> ex.calls,
            out |-> IF ex.error # "none" THEN ex.error ELSE res]

\* ------------------------------------------------------------ span wrapper
\* variant: the wrapper runs func without notifying span_enter
SpanEnter_Skipped(n, id) == n

\* token = active_span_id.set(id_); parent_id; self.span_enter(...)
SpanEnter(n, id) == [n EXCEPT ![id] = Append(@, "enter")]

\* variant: span_exit sent on every path, as if it sat in the finally block
SpanFinish_ExitAlways(n, id, prop, d, raised) ==
  LET n1 == IF raised
            THEN [n EXCEPT ![id] = Append(Append(@, "dropevent"), "drop")]
            ELSE n
  IN  [notes |-> [n1 EXCEPT ![id] = Append(@, "exit")],
       outcome |-> IF raised THEN "raise" ELSE "return"]

\* the try / except / else of the wrapper, given how func ended
SpanFinish(n, id, prop, d, raised) ==
  LET w == WalkFrom(d, prop) IN
  IF raised
  THEN LET n1 == [n EXCEPT ![id] = Append(@, "dropevent")]
       IN  IF w.raised
           THEN [notes |-> n1, outcome |-> "walk_error"]
           ELSE [notes |-> [n1 EXCEPT ![id] = Append(@, "drop")],
                 outcome |-> "raise"]
  ELSE [notes |-> [n EXCEPT ![id] = Append(@, "exit")],
        outcome |-> IF w.raised THEN "walk_error" ELSE "return"]

\* --------------------------------------------------------------- semaphore
Locked(v, ws) == v = 0 \/ ws # <<>>

Min(S) == CHOOSE x \in S : \A y \in S : x <= y

\* Semaphore._wake_up_next: hand the permit to the first waiter not yet woken
WakeUpNext(v, ws, t) ==
  LET cand == {k \in 1..Len(ws) : t[ws[k]] = "waiting"} IN
  IF cand = {}
  THEN [value |-> v, task |-> t, wake |-> <<>>]
  ELSE LET j == ws[Min(cand)]
       IN  [value |-> v - 1, task |-> [t EXCEPT ![j] = "woken"],
            wake |-> << <<"step", j>> >>]

\* Semaphore.release
Release(v, ws, t) == WakeUpNext(v + 1, ws, t)

Remove(ws, i) == SelectSeq(ws, LAMBDA x : x # i)

InQueue(h) == \E k \in 1..Len(ready) : ready[k] = h

\* ------------------------------------------------- state of one loop step
\* The handlers of the event loop run to their next suspension point; their
\* sequential effects are composed on a record of the mutable state.
Cur == [value |-> sem_value, waiters |-> waiters, task |-> task,
        notes |-> notes, active |-> active, parent |-> parent_id,
        result |-> task_result, queue |-> Tail(ready), order |-> done_order]

Install(s) ==
  /\ sem_value' = s.value
  /\ waiters' = s.waiters
  /\ task' = s.task
  /\ notes' = s.notes
  /\ active' = s.active
  /\ parent_id' = s.parent
  /\ task_result' = s.result
  /\ ready' = s.queue
  /\ done_order' = s.order

\* variant: the active span id is a plain module variable, one for all tasks
EnterWorkerSpan_SharedVariable(s, i) ==
  [s EXCEPT !.parent[WorkerSpan(i)] = s.active[i],
            !.active = [c \in Contexts |-> WorkerSpan(i)],
            !.notes = SpanEnter(s.notes, WorkerSpan(i))]

\* async_wrapper prologue of worker i, run in the context of its task
EnterWorkerSpan(s, i) ==
  [s EXCEPT !.parent[WorkerSpan(i)] = s.active[i],
            !.active[i] = WorkerSpan(i),
            !.notes = SpanEnter(s.notes, WorkerSpan(i))]

\* Semaphore.acquire, fast path
AcquireNow(s, i) == [s EXCEPT !.value = @ - 1]

\* Semaphore.acquire, slow path: queue a future and suspend
AcquireWait(s, i) ==
  [s EXCEPT !.waiters = Append(@, i), !.task[i] = "waiting"]

\* variant: acquire never waits, whatever the counter
Acquire_NeverWaits(s, i) == AcquireNow(s, i)

\* Semaphore.acquire: blocks exactly when the semaphore is locked
Acquire(s, i) ==
  IF Locked(s.value, s.waiters) THEN AcquireWait(s, i) ELSE AcquireNow(s, i)

WakeUp(s) ==
  LET r == WakeUpNext(s.value, s.waiters, s.task)
  IN  [s EXCEPT !.value = r.value, !.task = r.task, !.queue = @ \o r.wake]

\* __aexit__ of `async with semaphore`
ReleasePermit(s) ==
  LET r == Release(s.value, s.waiters, s.task)
  IN  [s EXCEPT !.value = r.value, !.task = r.task, !.queue = @ \o r.wake]

\* async_wrapper epilogue of worker i; the task finishes and its
\* done-callback (gather's _done_callback) is scheduled
ExitWorker(s, i) ==
  LET fin == SpanFinish(s.notes, WorkerSpan(i), propagate, SpanDispatcher,
                        behaviour[i] = Raise)
  IN  [s EXCEPT !.notes = fin.notes,
                !.task[i] = IF fin.outcome = "return" THEN "done" ELSE "failed",
                !.result[i] = IF fin.outcome = "return" THEN behaviour[i]
                              ELSE IF fin.outcome = "raise" THEN JobErr(i)
                              ELSE "KeyError",
                !.active[i] = s.parent[WorkerSpan(i)],
                !.queue = Append(@, <<"cb", i>>),
                !.order = Append(@, i)]

\* variant: the permit is released on the success path only
JobEnds_KeepPermitOnRaise(s, i) ==
  IF behaviour[i] = Raise THEN ExitWorker(s, i)
  ELSE ExitWorker(ReleasePermit(s), i)

\* the job returned or raised: leave `async with`, then leave the wrapper
JobEnds(s, i) == ExitWorker(ReleasePermit(s), i)

\* `return await job` with the permit held: the job either finishes without
\* suspending (imm) or suspends on an external event
RunJob(s, i, imm) ==
  IF imm THEN JobEnds(s, i) ELSE [s EXCEPT !.task[i] = "running"]

\* variant: results collected in completion order
GatherDone_CompletionOrder(o, nfin, i, t, res, children) ==
  IF o.state # "pending" THEN o
  ELSE IF t[i] = "cancelled" THEN [state |-> "exception", value |-> <<"CancelledError">>]
  ELSE IF t[i] = "failed" THEN [state |-> "exception", value |-> <<res[i]>>]
  ELSE IF nfin = Len(children)
       THEN [state |-> "result",
             value |-> [k \in 1..Len(children) |-> res[done_order[k]]]]
       ELSE o

\* variant: return_exceptions=True, exceptions delivered as results
GatherDone_ReturnExceptions(o, nfin, i, t, res, children) ==
  IF o.state # "pending" THEN o
  ELSE IF nfin = Len(children)
       THEN [state |-> "result",
             value |-> [k \in 1..Len(children) |-> res[children[k]]]]
       ELSE o

\* variant: wait for every child, then raise the exception of the first
\* failed child in submission order
GatherDone_WaitAll(o, nfin, i, t, res, children) ==
  IF o.state # "pending" \/ nfin # Len(children) THEN o
  ELSE LET bad == {k \in 1..Len(children) : t[children[k]] = "failed"}
       IN  IF bad # {}
           THEN [state |-> "exception", value |-> <<res[children[Min(bad)]]>>]
           ELSE [state |-> "result",
                 value |-> [k \in 1..Len(children) |-> res[children[k]]]]

\* variant: the outer future resolves when the first child has a result
GatherDone_FirstCompleted(o, nfin, i, t, res, children) ==
  IF o.state # "pending" THEN o
  ELSE IF t[i] = "failed" THEN [state |-> "exception", value |-> <<res[i]>>]
  ELSE [state |-> "result",
        value |-> [k \in 1..Len(children) |-> res[children[k]]]]

\* gather's _done_callback for child i (return_exceptions=False)
GatherDone(o, nfin, i, t, res, children) ==
  IF o.state # "pending" THEN o
  ELSE IF t[i] = "cancelled" THEN [state |-> "exception", value |-> <<"CancelledError">>]
  ELSE IF t[i] = "failed" THEN [state |-> "exception", value |-> <<res[i]>>]
  ELSE IF nfin = Len(children)
       THEN [state |-> "result",
             value |-> [k \in 1..Len(children) |-> res[children[k]]]]
       ELSE o

\* variant: the first failure cancels the children that have not finished
GatherChildren_CancelOnFailure(o, i, t) ==
  IF o.state = "exception" /\ t[i] = "failed"
  THEN [k \in Jobs |-> IF t[k] \in {"pending", "waiting", "woken", "running"}
                       THEN "cancelled" ELSE t[k]]
  ELSE t

\* gather leaves its other children alone when one of them fails
GatherChildren(o, i, t) == t

NoOuter == [state |-> "none", value |-> <<>>]
PendingOuter == [state |-> "pending", value |-> <<>>]

\* ------------------------------------------------------- run_jobs actions
jobVars == <<workers, njobs, behaviour>>

\* variant: gather of no awaitables returns a future nobody resolves
GatherNothing_StaysPending(n) == FALSE

\* asyncio.gather(*pool_jobs) with an empty pool_jobs: the future it returns
\* is already resolved with [], so `await` on it does not suspend
GatherNothing(n) == n = 0

\* the first step of `await run_jobs(jobs, workers=W)`: span entry, the
\* semaphore, the worker coroutines and the gather call
RunJobsStart ==
  /\ rj_pc = "idle"
  /\ LET n0 == SpanEnter(notes, RunJobsSpan)
         w  == WalkFrom(SpanDispatcher, propagate)
         bad == SpanFinish(n0, RunJobsSpan, propagate, SpanDispatcher, TRUE)
         ok0 == SpanFinish(n0, RunJobsSpan, propagate, SpanDispatcher, FALSE)
     IN
     /\ parent_id' = [parent_id EXCEPT ![RunJobsSpan] = active[0]]
     /\ IF w.raised
        THEN \* span_enter raised before the try block: no reset
             /\ notes' = n0
             /\ active' = [active EXCEPT ![0] = RunJobsSpan]
             /\ rj_pc' = "raised" /\ rj_error' = "KeyError"
             /\ at_finish' = task
             /\ UNCHANGED <<rj_result, task, sem_value, ready, outer>>
        ELSE IF workers < 0
        THEN \* asyncio.Semaphore(workers) raises ValueError
             /\ notes' = bad.notes
             /\ active' = active
             /\ rj_pc' = "raised"
             /\ rj_error' = IF bad.outcome = "raise" THEN "ValueError" ELSE "KeyError"
             /\ at_finish' = task
             /\ UNCHANGED <<rj_result, task, sem_value, ready, outer>>
        ELSE IF GatherNothing(njobs)
        THEN \* gather() of nothing is already done with []
             /\ notes' = ok0.notes
             /\ active' = active
             /\ sem_value' = workers
             /\ rj_pc' = IF ok0.outcome = "return" THEN "returned" ELSE "raised"
             /\ rj_result' = <<>>
             /\ rj_error' = IF ok0.outcome = "return" THEN rj_error ELSE "KeyError"
             /\ at_finish' = task
             /\ UNCHANGED <<task, ready, outer>>
        ELSE /\ notes' = n0
             /\ sem_value' = workers
             /\ task' = [i \in Jobs |-> IF i <= njobs THEN "pending" ELSE "none"]
             /\ ready' = [i \in 1..njobs |-> <<"step", i>>]
             \* each task runs in a copy of the creating context
             /\ active' = [c \in Contexts |->
                             IF c = 0 \/ c <= njobs THEN RunJobsSpan ELSE active[c]]
             /\ outer' = PendingOuter
             /\ rj_pc' = "gather"
             /\ UNCHANGED <<rj_result, rj_error, at_finish>>
  /\ UNCHANGED <<batchVars, callVars, otherVars>>
  /\ UNCHANGED <<propagate, jobVars, task_result, waiters, nfinished,
                 done_order>>

\* first step of the task of worker i
WorkerStart(i) ==
  /\ ready # <<>> /\ Head(ready) = <<"step", i>>
  /\ task[i] = "pending"
  /\ \E imm \in BOOLEAN :
       LET s1 == EnterWorkerSpan(Cur, i)
           s2 == Acquire(s1, i)
       IN  IF WalkFrom(SpanDispatcher, propagate).raised
           THEN Install([s1 EXCEPT !.task[i] = "failed",
                                   !.result[i] = "KeyError",
                                   !.queue = Append(@, <<"cb", i>>),
                                   !.order = Append(@, i)])
           ELSE IF s2.task[i] = "waiting"
                THEN Install(s2)
                ELSE Install(RunJob(s2, i, imm))
  /\ UNCHANGED <<batchVars, callVars, otherVars>>
  /\ UNCHANGED <<propagate, jobVars, rj_pc, rj_result, rj_error, nfinished,
                 outer, at_finish>>

\* the waiter's future was resolved: acquire() continues after `await fut`
WorkerResume(i) ==
  /\ ready # <<>> /\ Head(ready) = <<"step", i>>
  /\ task[i] = "woken"
  /\ \E imm \in BOOLEAN :
       LET s1 == [Cur EXCEPT !.waiters = Remove(@, i)]
           s2 == IF s1.value > 0 THEN WakeUp(s1) ELSE s1
       IN  Install(RunJob(s2, i, imm))
  /\ UNCHANGED <<batchVars, callVars, otherVars>>
  /\ UNCHANGED <<propagate, jobVars, rj_pc, rj_result, rj_error, nfinished,
                 outer, at_finish>>

\* the external event the running job awaits completes
JobEvent(i) ==
  /\ task[i] = "running"
  /\ ~InQueue(<<"step", i>>)
  /\ ready' = Append(ready, <<"step", i>>)
  /\ UNCHANGED <<batchVars, callVars, otherVars>>
  /\ UNCHANGED <<propagate, jobVars, rj_pc, rj_result, rj_error, task,
                 task_result, sem_value, waiters, nfinished, outer, active,
                 notes, parent_id, at_finish, done_order>>

\* the job resumes and returns or raises
JobFinish(i) ==
  /\ ready # <<>> /\ Head(ready) = <<"step", i>>
  /\ task[i] = "running"
  /\ Install(JobEnds(Cur, i))
  /\ UNCHANGED <<batchVars, callVars, otherVars>>
  /\ UNCHANGED <<propagate, jobVars, rj_pc, rj_result, rj_error, nfinished,
                 outer, at_finish>>

\* gather's done-callback of child i
GatherCallback(i) ==
  /\ ready # <<>> /\ Head(ready) = <<"cb", i>>
  /\ LET o == GatherDone(outer, nfinished + 1, i, task, task_result,
                         [k \in 1..njobs |-> k])
     IN  /\ nfinished' = nfinished + 1
         /\ outer' = o
         /\ task' = GatherChildren(o, i, task)
         /\ ready' = IF outer.state = "pending" /\ o.state # "pending"
                     THEN Append(Tail(ready), <<"rj", 0>>)
                     ELSE Tail(ready)
  /\ UNCHANGED <<batchVars, callVars, otherVars>>
  /\ UNCHANGED <<propagate, jobVars, rj_pc, rj_result, rj_error,
                 task_result, sem_value, waiters, active, notes, parent_id,
                 at_finish, done_order>>

\* `results = await asyncio.gather(*pool_jobs)` resumes; wrapper epilogue
RunJobsResume ==
  /\ ready # <<>> /\ Head(ready) = <<"rj", 0>>
  /\ rj_pc = "gather"
  /\ LET fin == SpanFinish(notes, RunJobsSpan, propagate, SpanDispatcher,
                           outer.state = "exception")
     IN  /\ notes' = fin.notes
         /\ rj_pc' = IF fin.outcome = "return" THEN "returned" ELSE "raised"
         /\ rj_result' = IF fin.outcome = "return" THEN outer.value ELSE rj_result
         /\ rj_error' = IF fin.outcome = "return" THEN rj_error
                        ELSE IF fin.outcome = "raise" THEN outer.value[1]
                        ELSE "KeyError"
  /\ active' = [active EXCEPT ![0] = parent_id[RunJobsSpan]]
  /\ at_finish' = task
  /\ ready' = Tail(ready)
  /\ UNCHANGED <<batchVars, callVars, otherVars>>
  /\ UNCHANGED <<propagate, jobVars, task, task_result, sem_value, waiters,
                 nfinished, outer, parent_id, done_order>>

InitSpans ==
  /\ propagate = DefaultPropagate
  /\ active = [c \in Contexts |-> None]
  /\ notes = [id \in SpanIds |-> <<>>]
  /\ parent_id = [id \in SpanIds |-> None]

InitLoop ==
  /\ task_result = [i \in Jobs |-> "none"]
  /\ ready = <<>>
  /\ nfinished = 0
  /\ outer = NoOuter

InitRunJobs ==
  /\ rj_pc = "idle"
  /\ rj_result = <<>>
  /\ rj_error = "none"
  /\ sem_value = 0
  /\ waiters = <<>>
  /\ at_finish = [i \in Jobs |-> "none"]
  /\ done_order = <<>>

InitBatch ==
  /\ bg_pc = "idle" /\ bg_chunk = 0
  /\ bg_output = <<>> /\ bg_error = "none"

NoInfo == [kind |-> "none", end |-> "none"]
\* op: "enter" a wrapper prologue, "call" a finished call, "event" a direct
\* dispatch; seen: the arguments of each invocation of the target; target:
\* what the target did; out: what the caller got
NoRet == [op |-> "none", id |-> None, disp |-> "none", arg |-> "none",
          seen |-> <<>>, target |-> "none", out |-> "none"]

InitCalls ==
  /\ stack = [c \in Contexts |-> <<>>]
  /\ next_id = 1
  /\ span_info = [id \in SpanIds |-> NoInfo]
  /\ created = [d \in Dispatchers |-> <<>>]
  \* Dispatcher.__init__ defaults: each dispatcher is built with a handler
  \* list of its own (the model validates the argument into a fresh list)
  /\ event_handlers = [d \in Dispatchers |-> <<>>]
  /\ span_handlers = [d \in Dispatchers |-> <<>>]
  /\ hlog = <<>>
  /\ ret = NoRet

\* two run_jobs calls awaited concurrently on one event loop, each in a task
\* of its own; context 0 of a call is the task that awaits run_jobs, context
\* i the task of its i-th worker; the span entered in a context carries the
\* context's name
TwoCalls == {"A", "B"}
TwoJobs == 1..MaxTwoJobs
TwoContexts == TwoCalls \X (0..MaxTwoJobs)
NoSpan == <<"none", 0>>

InitTwo ==
  /\ tw_pc = [k \in TwoCalls |-> "idle"]
  /\ tw_workers = [k \in TwoCalls |-> 0]
  /\ tw_njobs = [k \in TwoCalls |-> 0]
  /\ tw_sem = [k \in TwoCalls |-> 0]
  /\ tw_waiters = [k \in TwoCalls |-> <<>>]
  /\ tw_task = [k \in TwoCalls |-> [i \in TwoJobs |-> "none"]]
  /\ tw_nfin = [k \in TwoCalls |-> 0]
  /\ tw_ready = <<>>
  /\ tw_active = [c \in TwoContexts |-> NoSpan]
  /\ tw_parent = [c \in TwoContexts |-> NoSpan]
  /\ tw_notes = [c \in TwoContexts |-> <<>>]

\* Manager(root): the registry holds the root dispatcher under its name;
\* the root is Dispatcher(name="root") with the default parent_name ""
RootObject == [name |-> RootName, parent_name |-> ""]

InitManager ==
  /\ mg_objs = <<RootObject>>
  /\ mg_dispatchers = [n \in Dispatchers |-> IF n = RootName THEN 1 ELSE 0]
  /\ mg_added = <<>>

\* the kwargs a LoopComponent is run with, and `output` before the first
\* assignment to it
OriginalInput == <<0>>
Unbound == [input |-> <<>>, run |-> 0]

\* a LoopComponent with its fields, before it is run
NoLoop ==
  [pc |-> "idle", max |-> 0, has_exit |-> FALSE, exits |-> {}, add |-> FALSE,
   i |-> 0, cur |-> OriginalInput, out |-> Unbound, fed |-> <<>>,
   adds |-> <<>>, error |-> "none"]

InitLoopComponent == lp_sync = NoLoop /\ lp_async = NoLoop

\* a process before any ExceptionCapture is built: the interpreter's hooks
InitHooks ==
  /\ hk_orig = <<>>
  /\ hk_sys = 0 /\ hk_thread = 0
  /\ hk_log = <<>>
  /\ hk_pc = "running"

InitOther ==
  InitTwo /\ InitManager /\ ar_log = <<>> /\ InitLoopComponent /\ InitHooks

\* the jobs handed to the runner: N coroutines, each returning or raising
InitJobs ==
  /\ njobs \in 0..MaxJobs
  /\ behaviour \in [Jobs -> Behaviours]
  /\ \A i \in Jobs : i > njobs => behaviour[i] = "a"

Init ==
  /\ InitSpans /\ InitLoop /\ InitRunJobs /\ InitBatch /\ InitJobs /\ InitCalls /\ InitOther
  /\ workers \in WorkerCounts
  /\ njobs <= MaxRunJobs
  /\ batch_size = 1
  /\ task = [i \in Jobs |-> "none"]

Next ==
  \/ RunJobsStart
  \/ \E i \in Jobs : WorkerStart(i)
  \/ \E i \in Jobs : WorkerResume(i)
  \/ \E i \in Jobs : JobEvent(i)
  \/ \E i \in Jobs : JobFinish(i)
  \/ \E i \in Jobs : GatherCallback(i)
  \/ RunJobsResume

Spec == Init /\ [][Next]_vars

\* ------------------------------------------------------ run_jobs claims
Submitted == 1..njobs
HoldingJobs == {i \in Jobs : task[i] \in Holding}
Unsettled == {"pending", "waiting", "woken", "running"}
AllSettled == \A i \in Submitted : task[i] \in Settled

\* C1: with W >= 1 workers, at every moment of a run_jobs call the number of
\* jobs that hold a permit and have not finished is at most W.
C1_AtMostWRunning ==
  workers >= 1 => Cardinality(HoldingJobs) <= workers

\* the cap binds: W jobs hold a permit while another one waits for one
C1_Witness ==
  /\ workers >= 1
  /\ Cardinality(HoldingJobs) = workers
  /\ \E i \in Jobs : task[i] = "waiting"

\* C2: when run_jobs returns, the result has length N and its i-th element
\* is the result of the i-th submitted job, whatever the completion order.
C2_ResultsInSubmissionOrder ==
  rj_pc = "returned" =>
    /\ Len(rj_result) = njobs
    /\ \A i \in Submitted : rj_result[i] = behaviour[i]

\* three jobs, two workers, the second job finished first, results differ
C2_Witness ==
  /\ rj_pc = "returned" /\ njobs = 3 /\ workers = 2
  /\ done_order[1] = 2
  /\ behaviour[1] # behaviour[2]

\* C4: if any job raised, run_jobs does not return a result sequence, not
\* even a partial one, and once the loop is idle the call has raised.
C4_FailureMeansNoResult ==
  (\E i \in Jobs : task[i] = "failed") =>
    /\ rj_pc # "returned"
    /\ rj_result = <<>>
    /\ ready = <<>> => rj_pc = "raised"

\* run_jobs raised although some job had produced a result
C4_Witness ==
  /\ rj_pc = "raised"
  /\ \E i \in Jobs : task[i] = "failed"
  /\ \E j \in Jobs : task[j] = "done"
  /\ rj_result = <<>>

\* C5 as stated: at the moment run_jobs raises no submitted job is still
\* running or still waiting for a permit.
C5_AllSettledWhenRaised ==
  rj_pc = "raised" => \A i \in Jobs : at_finish[i] \notin Unsettled

\* C5 amended: run_jobs raises as soon as the first failing job has settled;
\* the exception is that of the job which failed first, and that job has
\* failed at the moment run_jobs raises.
C5_RaisesFirstFailure ==
  (rj_pc = "raised" /\ workers >= 0) =>
    \E k \in 1..Len(done_order) :
      LET f == done_order[k] IN
      /\ behaviour[f] = Raise
      /\ \A m \in 1..(k - 1) : behaviour[done_order[m]] # Raise
      /\ rj_error = JobErr(f)
      /\ at_finish[f] = "failed"

\* run_jobs raised while a sibling was running or waiting for a permit
C5_Witness ==
  /\ rj_pc = "raised"
  /\ \E i \in Jobs : at_finish[i] = "running"
  /\ \E i \in Jobs : at_finish[i] = "waiting"

\* C6: no job is ever cancelled by the runner; a settled job settled by its
\* own return or its own exception, and after a failure was raised to the
\* caller the remaining jobs still run until each of them has settled.
C6_NoSiblingCancelled ==
  /\ \A i \in Jobs :
       /\ task[i] # "cancelled"
       /\ task[i] = "done" => task_result[i] = behaviour[i]
       /\ task[i] = "failed" => task_result[i] = JobErr(i)
  /\ (rj_pc = "raised" /\ workers >= 1 /\ ready = <<>>
        /\ \A i \in Jobs : task[i] # "running") => AllSettled

\* a job that was waiting for a permit when run_jobs raised completed later
C6_Witness ==
  /\ rj_pc = "raised"
  /\ \E i \in Jobs : at_finish[i] = "waiting" /\ task[i] = "done"
  /\ \E i \in Jobs : at_finish[i] = "running" /\ task[i] = "done"

\* C7 as stated, for a non-empty job list: a worker count of 0 or less is
\* rejected with an error; no job is started or left waiting for a permit.
C7_NonPositiveWorkersRejected ==
  (workers <= 0 /\ njobs >= 1 /\ rj_pc # "idle") =>
    /\ rj_pc = "raised"
    /\ \A i \in Jobs : task[i] = "none"

\* C8: the permits taken from the semaphore are exactly those of the jobs in
\* their running phase, and all W permits are free once every job settled.
C8_PermitsMatchRunningJobs ==
  (workers >= 0 /\ rj_pc # "idle") =>
    /\ workers - sem_value = Cardinality(HoldingJobs)
    /\ AllSettled => sem_value = workers

\* all jobs settled, one of them by raising, and every permit is back
C8_Witness ==
  /\ workers >= 1 /\ njobs >= 2 /\ AllSettled
  /\ \E i \in Jobs : task[i] = "failed"
  /\ \E i \in Jobs : task[i] = "done"
  /\ sem_value = workers

\* the context in which a span of the job runner is entered
Owner(id) == IF id = RunJobsSpan THEN 0 ELSE id - 1

\* C18 as stated: a span entered in one task is never read as the active or
\* the parent span id in another task.
C18_NeverReadInAnotherTask ==
  /\ \A c \in Contexts : active[c] # None => Owner(active[c]) = c
  /\ \A id \in SpanIds :
       parent_id[id] # None => Owner(parent_id[id]) = Owner(id)

\* C18 amended: a task starts with a copy of the active span id of the task
\* that created it and from then on the tasks are isolated: the active span
\* id of a worker task is the inherited run_jobs span or the worker's own
\* span, never a sibling's; the parent of a worker's span is the inherited
\* span; a worker suspended inside its span has its own span active when it
\* resumes; a settled worker has the inherited id again, also after
\* run_jobs has left its span in its own context.
C18_IsolatedAfterCreation ==
  /\ active[0] \in {None, RunJobsSpan}
  /\ \A i \in Jobs :
       /\ active[i] \in {None, RunJobsSpan, WorkerSpan(i)}
       /\ parent_id[WorkerSpan(i)] \in {None, RunJobsSpan}
       /\ task[i] \in {"waiting", "woken", "running"}
            => active[i] = WorkerSpan(i)
       /\ task[i] \in {"pending", "done", "failed"}
            => active[i] = RunJobsSpan

\* one worker is suspended on the semaphore inside its span while another
\* runs inside its own and a third has settled; run_jobs has raised already
C18_Witness ==
  \E i, j, k \in Jobs :
    /\ task[i] = "waiting" /\ active[i] = WorkerSpan(i)
    /\ task[j] = "running" /\ active[j] = WorkerSpan(j)
    /\ task[k] = "failed" /\ active[k] = RunJobsSpan
    /\ parent_id[WorkerSpan(i)] = RunJobsSpan
    /\ rj_pc = "raised" /\ active[0] = None

\* C24: run_jobs with an empty job list returns the empty result sequence in
\* its first step, for every worker count Semaphore accepts (W >= 0, W = 0
\* included): no task is created, nothing is queued on the loop and nobody
\* waits for a permit.
C24_EmptyReturnsAtOnce ==
  (rj_pc # "idle" /\ njobs = 0 /\ workers >= 0) =>
    /\ rj_pc = "returned" /\ rj_result = <<>>
    /\ ready = <<>> /\ waiters = <<>> /\ outer = NoOuter
    /\ sem_value = workers
    /\ \A i \in Jobs : task[i] = "none"
    /\ notes[RunJobsSpan] = <<"enter", "exit">>

C24_Witness ==
  rj_pc = "returned" /\ njobs = 0 /\ workers = 0 /\ rj_result = <<>>

\* the last notification of span id; a span is closed by span_exit/span_drop
LastNote(n, id) == IF n[id] = <<>> THEN "none" ELSE n[id][Len(n[id])]
Closed(n, id) == LastNote(n, id) \in {"exit", "drop"}
OpenSpan(n, id) == n[id] # <<>> /\ ~Closed(n, id)

\* the span of worker i is open exactly while its task is between its first
\* step and its end
SpanFollowsTask ==
  \A i \in Jobs :
    /\ task[i] \in {"waiting", "woken", "running"} => OpenSpan(notes, WorkerSpan(i))
    /\ task[i] = "done" => LastNote(notes, WorkerSpan(i)) = "exit"
    /\ task[i] = "failed" => LastNote(notes, WorkerSpan(i)) = "drop"
    /\ task[i] \in {"none", "pending"} => notes[WorkerSpan(i)] = <<>>

\* C30 as stated: at the moment the run_jobs span is exited or dropped
\* (at_finish is the state of the worker tasks at that moment), no worker
\* span is open.
C30_ChildrenClosedFirst ==
  Closed(notes, RunJobsSpan) =>
    \A i \in Jobs : at_finish[i] \notin {"waiting", "woken", "running"}

\* C30 amended: when the run_jobs span is exited, every worker span has been
\* exited before; when it is dropped because a job raised, the span of a
\* failed worker has been dropped before, while the spans of the other
\* workers may still be open and are closed later.
C30_ClosedFirstOnReturn ==
  /\ SpanFollowsTask
  /\ rj_pc \in {"returned", "raised"} <=> Closed(notes, RunJobsSpan)
  /\ LastNote(notes, RunJobsSpan) = "exit" =>
       \A i \in Submitted : at_finish[i] = "done"
  /\ (LastNote(notes, RunJobsSpan) = "drop" /\ workers >= 0) =>
       \E i \in Submitted : at_finish[i] = "failed" /\ rj_error = JobErr(i)

\* the run_jobs span was dropped while a worker span was open, and that
\* worker span was exited afterwards
C30_Witness ==
  /\ LastNote(notes, RunJobsSpan) = "drop"
  /\ \E i \in Jobs : at_finish[i] = "running" /\ LastNote(notes, WorkerSpan(i)) = "exit"
  /\ \E j \in Jobs : OpenSpan(notes, WorkerSpan(j))

\* one iteration of the event loop: the handle at the head of the ready
\* queue is run
LoopStep ==
  \/ \E i \in Jobs : WorkerStart(i)
  \/ \E i \in Jobs : WorkerResume(i)
  \/ \E i \in Jobs : JobFinish(i)
  \/ \E i \in Jobs : GatherCallback(i)
  \/ RunJobsResume

\* The call is made and the event loop keeps running: while the ready queue
\* is not empty its head is run (weak fairness of LoopStep); every started
\* job finishes: the event it awaits arrives (weak fairness of JobEvent).
Fairness ==
  /\ WF_vars(RunJobsStart)
  /\ WF_vars(LoopStep)
  /\ \A i \in Jobs : WF_vars(JobEvent(i))

\* run_jobs called with at least one worker and up to MaxFairJobs jobs
FairInit == Init /\ workers >= 1 /\ njobs <= MaxFairJobs

SpecFair == FairInit /\ [][Next]_vars /\ Fairness

\* C28: with W >= 1 and jobs that finish once started, run_jobs eventually
\* returns or raises and every submitted job is eventually admitted and
\* settles by its own return or exception: nobody waits for a permit
\* forever, also after an earlier job failed.
C28_EveryJobAdmitted ==
  (workers >= 1) ~>
    /\ rj_pc \in {"returned", "raised"}
    /\ AllSettled
    /\ waiters = <<>> /\ ready = <<>>

\* one worker: the second job waited for the permit the first job held; the
\* first job raised, its permit was handed to the waiter
C28_Witness ==
  /\ workers = 1 /\ njobs = 2
  /\ behaviour[1] = Raise /\ task[1] = "failed"
  /\ task[2] = "woken" /\ waiters = <<2>> /\ sem_value = 0

\* ----------------------------------------------------------- batch_gather
\* chunks(iterable, size): zip_longest over `size` references to one
\* iterator; the last tuple is filled up with fillvalue=None
FillValue == None

NumChunks(n, size) == (n + size - 1) \div size

Chunks(n, size) ==
  [k \in 1..NumChunks(n, size) |->
     [j \in 1..size |-> IF (k - 1) * size + j <= n
                        THEN (k - 1) * size + j ELSE FillValue]]

ChunkOf(i) == ((i - 1) \div batch_size) + 1

\* asyncio.gather(*c) wraps its arguments in tasks one after the other and
\* raises TypeError at the first argument that is not awaitable
GatherArgs(c) ==
  LET pads == {j \in 1..Len(c) : c[j] = FillValue}
  IN  IF pads = {} THEN c ELSE SubSeq(c, 1, Min(pads) - 1)

\* one iteration of `for task_chunk in chunks(tasks, batch_size)` up to the
\* await, or the return after the last chunk; q is the rest of the queue
BatchStep(q, out, k) ==
  IF k > NumChunks(njobs, batch_size)
  THEN /\ bg_pc' = "returned"
       /\ bg_output' = out
       /\ ready' = q
       /\ UNCHANGED <<task, nfinished, outer, bg_chunk, bg_error>>
  ELSE LET c == Chunks(njobs, batch_size)[k]
           sched == GatherArgs(c)
       IN  /\ task' = [i \in Jobs |->
                         IF \E j \in 1..Len(sched) : sched[j] = i
                         THEN "pending" ELSE task[i]]
           /\ ready' = q \o [j \in 1..Len(sched) |-> <<"step", sched[j]>>]
           /\ nfinished' = 0
           /\ bg_chunk' = k
           /\ bg_output' = out
           /\ IF Len(sched) < Len(c)
              THEN bg_pc' = "raised" /\ bg_error' = "TypeError" /\ outer' = NoOuter
              ELSE bg_pc' = "gather" /\ bg_error' = bg_error /\ outer' = PendingOuter

\* first step of `await batch_gather(tasks, batch_size)`
BatchStart ==
  /\ bg_pc = "idle"
  /\ BatchStep(ready, <<>>, 1)
  /\ UNCHANGED <<jobVars, task_result, batch_size>>
  /\ UNCHANGED <<runJobsVars, spanVars, callVars, otherVars>>

\* the job's task ends: result or exception stored, done-callback scheduled
BatchJobEnds(i) ==
  /\ task' = [task EXCEPT ![i] = IF behaviour[i] = Raise THEN "failed" ELSE "done"]
  /\ task_result' = [task_result EXCEPT ![i] =
                       IF behaviour[i] = Raise THEN JobErr(i) ELSE behaviour[i]]
  /\ ready' = Append(Tail(ready), <<"cb", i>>)

\* first step of the task of job i
BatchJobStart(i) ==
  /\ ready # <<>> /\ Head(ready) = <<"step", i>>
  /\ task[i] = "pending"
  /\ \E imm \in BOOLEAN :
       IF imm THEN BatchJobEnds(i)
       ELSE /\ task' = [task EXCEPT ![i] = "running"]
            /\ ready' = Tail(ready)
            /\ UNCHANGED task_result
  /\ UNCHANGED <<jobVars, nfinished, outer, batchVars>>
  /\ UNCHANGED <<runJobsVars, spanVars, callVars, otherVars>>

\* the external event the running job awaits completes
BatchJobEvent(i) ==
  /\ task[i] = "running"
  /\ ~InQueue(<<"step", i>>)
  /\ ready' = Append(ready, <<"step", i>>)
  /\ UNCHANGED <<jobVars, task, task_result, nfinished, outer, batchVars>>
  /\ UNCHANGED <<runJobsVars, spanVars, callVars, otherVars>>

\* the job resumes and returns or raises
BatchJobFinish(i) ==
  /\ ready # <<>> /\ Head(ready) = <<"step", i>>
  /\ task[i] = "running"
  /\ BatchJobEnds(i)
  /\ UNCHANGED <<jobVars, nfinished, outer, batchVars>>
  /\ UNCHANGED <<runJobsVars, spanVars, callVars, otherVars>>

\* gather's done-callback of child i
BatchCallback(i) ==
  /\ ready # <<>> /\ Head(ready) = <<"cb", i>>
  /\ LET o == GatherDone(outer, nfinished + 1, i, task, task_result,
                         Chunks(njobs, batch_size)[bg_chunk])
     IN  /\ nfinished' = nfinished + 1
         /\ outer' = o
         /\ task' = GatherChildren(o, i, task)
         /\ ready' = IF outer.state = "pending" /\ o.state # "pending"
                     THEN Append(Tail(ready), <<"bg", 0>>)
                     ELSE Tail(ready)
  /\ UNCHANGED <<jobVars, task_result, batchVars>>
  /\ UNCHANGED <<runJobsVars, spanVars, callVars, otherVars>>

\* `output_chunk = await asyncio.gather(*task_chunk)` resumes
BatchResume ==
  /\ ready # <<>> /\ Head(ready) = <<"bg", 0>>
  /\ bg_pc = "gather"
  /\ IF outer.state = "result"
     THEN BatchStep(Tail(ready), bg_output \o outer.value, bg_chunk + 1)
     ELSE /\ bg_pc' = "raised"
          /\ bg_error' = outer.value[1]
          /\ ready' = Tail(ready)
          /\ UNCHANGED <<task, nfinished, outer, bg_chunk, bg_output>>
  /\ UNCHANGED <<jobVars, task_result, batch_size>>
  /\ UNCHANGED <<runJobsVars, spanVars, callVars, otherVars>>

BatchInit ==
  /\ InitSpans /\ InitLoop /\ InitRunJobs /\ InitBatch /\ InitJobs /\ InitCalls /\ InitOther
  /\ workers = DEFAULT_NUM_WORKERS
  /\ batch_size \in 1..MaxBatch
  /\ task = [i \in Jobs |-> IF i <= njobs THEN "unscheduled" ELSE "none"]

BatchNext ==
  \/ BatchStart
  \/ \E i \in Jobs : BatchJobStart(i)
  \/ \E i \in Jobs : BatchJobEvent(i)
  \/ \E i \in Jobs : BatchJobFinish(i)
  \/ \E i \in Jobs : BatchCallback(i)
  \/ BatchResume

SpecBatch == BatchInit /\ [][BatchNext]_vars

\* ------------------------------------------------------ batch_gather claims
AllJobsSucceed == \A i \in Submitted : behaviour[i] # Raise

\* C3 as stated: on N succeeding jobs batch_gather never fails and returns
\* exactly the N job results in submission order, for every N >= 0 and
\* every batch size B >= 1, also when B does not divide N.
C3_BatchEqualsUnbatched ==
  AllJobsSucceed =>
    /\ bg_pc # "raised"
    /\ bg_pc = "returned" => bg_output = [i \in 1..njobs |-> behaviour[i]]

\* C9: no job of a later chunk is handed to the event loop before every job
\* of each earlier chunk has completed.
C9_ChunkBarrier ==
  \A i, j \in Submitted :
    (ChunkOf(i) < ChunkOf(j) /\ task[j] # "unscheduled") => task[i] = "done"

\* the two jobs of the second chunk run concurrently after the first chunk
C9_Witness ==
  /\ njobs = 4 /\ batch_size = 2 /\ bg_chunk = 2
  /\ task[1] = "done" /\ task[2] = "done"
  /\ task[3] = "running" /\ task[4] = "running"

\* ------------------------------------------------- span-wrapped operations
\* Contexts 1..MaxCtx (threads or tasks) call span-wrapped operations, sync
\* (wrapper) or async (async_wrapper), nested up to MaxDepth; each call gets
\* a fresh span id and is decorated by one of the registered dispatchers
\* (in SpecSpan by the dispatcher of async_utils).
CallContexts == 1..MaxCtx
Kinds == {"sync", "async"}

Top(c) == stack[c][Len(stack[c])]
Pop(c) == SubSeq(stack[c], 1, Len(stack[c]) - 1)

\* variant: the active span id is one variable shared by all contexts
ParentOf_SharedVariable(act, c) == act[1]

\* parent_id = None if token.old_value is Token.MISSING else token.old_value,
\* the value of the context variable in the calling context
ParentOf(act, c) == act[c]

\* variant: the reset sits in the else branch, not in finally
ResetToken_OnlyOnReturn(act, c, old, res) ==
  IF res \in Errors THEN act ELSE [act EXCEPT ![c] = old]

\* finally: active_span_id.reset(token)
ResetToken(act, c, old, res) == [act EXCEPT ![c] = old]

\* wrapper prologue: id_, token = active_span_id.set(id_), parent_id,
\* self.span_enter(...), then func(*args, **kwargs) is invoked; a span_enter
\* that raises leaves before the try and func is not invoked
Prologue(c, d, kind, arg) ==
  /\ next_id <= MaxSpans /\ next_id \in SpanIds
  /\ Len(stack[c]) < MaxDepth
  /\ LET id == next_id
         en == Notify(d, propagate, span_handlers,
                      Invocation("span_enter", id, IdStr(active[c])))
     IN
     /\ next_id' = next_id + 1
     /\ parent_id' = [parent_id EXCEPT ![id] = ParentOf(active, c)]
     /\ active' = [active EXCEPT ![c] = id]
     /\ notes' = SpanEnter(notes, id)
     /\ hlog' = en.calls
     /\ span_info' = [span_info EXCEPT ![id].kind = kind]
     /\ stack' = IF en.error # "none" THEN stack
                 ELSE [stack EXCEPT ![c] =
                         Append(@, [id |-> id, old |-> active[c],
                                    kind |-> kind, disp |-> d,
                                    arg |-> arg, seen |-> <<arg>>])]
     /\ ret' = IF en.error # "none"
               THEN [NoRet EXCEPT !.op = "call", !.id = id, !.disp = d,
                                  !.arg = arg, !.out = en.error]
               ELSE [NoRet EXCEPT !.op = "enter", !.id = id, !.disp = d,
                                  !.arg = arg, !.seen = <<arg>>]
  /\ UNCHANGED <<propagate, jobVars, task, task_result, ready, nfinished, outer>>
  /\ UNCHANGED <<runJobsVars, batchVars, handlerVars, otherVars>>

RECURSIVE SumLen(_, _)
SumLen(f, S) ==
  IF S = {} THEN 0
  ELSE LET d == CHOOSE x \in S : TRUE IN Len(f[d]) + SumLen(f, S \ {d})
Sum(f) == SumLen(f, Dispatchers)

\* the caller calls the decorated operation: wrapper runs its prologue and
\* func at once; async_wrapper is a coroutine function, so the call only
\* builds a coroutine object and hands it to the caller
SpanCall(c, d, kind, arg) ==
  IF kind = "sync"
  THEN Prologue(c, d, kind, arg) /\ UNCHANGED created
  ELSE /\ Sum(created) < MaxCoros
       /\ next_id + Sum(created) <= MaxSpans
       /\ created' = [created EXCEPT ![d] = Append(@, arg)]
       /\ hlog' = <<>> /\ ret' = NoRet
       /\ UNCHANGED <<stack, next_id, span_info, spanVars, handlerVars>>
       /\ UNCHANGED <<jobVars, task, task_result, ready, nfinished, outer>>
       /\ UNCHANGED <<runJobsVars, batchVars, otherVars>>

\* a coroutine of async_wrapper is awaited (by a coroutine or as a task of
\* its own) and runs its first step in context c: the prologue
SpanStart(c, d) ==
  /\ created[d] # <<>>
  /\ stack[c] # <<>> => Top(c).kind = "async"
  /\ created' = [created EXCEPT ![d] = Tail(@)]
  /\ Prologue(c, d, "async", Head(created[d]))

\* wrapper epilogue once the innermost wrapped func of context c has ended
\* with res: except / else branch, then finally: active_span_id.reset(token)
SpanEnd(c, res) ==
  LET f == Top(c)
      fin == SpanFinish(notes, f.id, propagate, f.disp, res \in Errors)
      ep == Epilogue(f.disp, propagate, event_handlers, span_handlers,
                     f.id, res)
  IN  /\ notes' = fin.notes
      /\ hlog' = ep.calls
      /\ ret' = [op |-> "call", id |-> f.id, disp |-> f.disp, arg |-> f.arg,
                 seen |-> f.seen, target |-> res, out |-> ep.out]
      /\ active' = ResetToken(active, c, f.old, res)
      /\ stack' = [stack EXCEPT ![c] = Pop(c)]
      /\ span_info' = [span_info EXCEPT ![f.id].end =
                         IF res \in Errors THEN "raised" ELSE "returned"]
      /\ UNCHANGED <<propagate, parent_id, next_id, created, handlerVars>>
      /\ UNCHANGED <<jobVars, task, task_result, ready, nfinished, outer>>
      /\ UNCHANGED <<runJobsVars, batchVars, otherVars>>

\* the wrapped func returns the value v
SpanReturn(c, v) == stack[c] # <<>> /\ SpanEnd(c, v)

\* the wrapped func raises the exception e
SpanRaise(c, e) == stack[c] # <<>> /\ SpanEnd(c, e)

CallInit ==
  /\ InitLoop /\ InitRunJobs /\ InitBatch /\ InitCalls /\ InitOther
  /\ propagate = DefaultPropagate
  /\ active = [c \in Contexts |-> None]
  /\ notes = [id \in SpanIds |-> <<>>]
  /\ parent_id = [id \in SpanIds |-> None]
  /\ workers = DEFAULT_NUM_WORKERS /\ njobs = 0
  /\ behaviour = [i \in Jobs |-> "a"]
  /\ batch_size = 1
  /\ task = [i \in Jobs |-> "none"]

CallNext ==
  \/ \E c \in CallContexts, kind \in Kinds :
       SpanCall(c, SpanDispatcher, kind, "x")
  \/ \E c \in CallContexts : SpanStart(c, SpanDispatcher)
  \/ \E c \in CallContexts : SpanReturn(c, "a")
  \/ \E c \in CallContexts, e \in Errors : SpanRaise(c, e)

SpecSpan == CallInit /\ [][CallNext]_vars

\* ------------------------------------------------------------ span claims
\* C10: every span gets span_enter once and first; once the wrapped
\* operation has returned its span has exactly one terminal notification,
\* span_exit; once it has raised, exactly span_drop (after the drop event);
\* while it runs there is none, and nothing follows the terminal one.
C10_ExactlyOneTerminal ==
  \A id \in SpanIds :
    /\ span_info[id].kind = "none" => notes[id] = <<>>
    /\ (span_info[id].kind # "none" /\ span_info[id].end = "none")
         => notes[id] = <<"enter">>
    /\ span_info[id].end = "returned" => notes[id] = <<"enter", "exit">>
    /\ span_info[id].end = "raised"
         => notes[id] = <<"enter", "dropevent", "drop">>

\* a sync span that was dropped and an async span that exited, both closed
C10_Witness ==
  \E a, b \in SpanIds :
    /\ span_info[a] = [kind |-> "sync", end |-> "raised"]
    /\ notes[a] = <<"enter", "dropevent", "drop">>
    /\ span_info[b] = [kind |-> "async", end |-> "returned"]
    /\ notes[b] = <<"enter", "exit">>

\* ------------------------------------------------ the dispatcher tree
\* One thread registers handlers on the dispatchers, dispatches events and
\* calls span-wrapped operations; every propagate flag, the root's
\* included, is an input.
TreeContext == 1

\* variant: the handler lists are one list shared by all dispatchers
AddHandler_SharedList(lists, d, h) ==
  [x \in Dispatchers |-> Append(lists[x], h)]

\* self.event_handlers += [handler]
AddHandler(lists, d, h) == [lists EXCEPT ![d] = Append(@, h)]

Registered == Sum(event_handlers) + Sum(span_handlers)

AddEventHandler(d, h) ==
  /\ Registered < MaxHandlers
  /\ event_handlers' = AddHandler(event_handlers, d, h)
  /\ hlog' = <<>> /\ ret' = NoRet
  /\ UNCHANGED <<span_handlers, stack, next_id, span_info, created>>
  /\ UNCHANGED <<spanVars, jobVars, task, task_result, ready, nfinished, outer>>
  /\ UNCHANGED <<runJobsVars, batchVars, otherVars>>

AddSpanHandler(d, h) ==
  /\ Registered < MaxHandlers
  /\ span_handlers' = AddHandler(span_handlers, d, h)
  /\ hlog' = <<>> /\ ret' = NoRet
  /\ UNCHANGED <<event_handlers, stack, next_id, span_info, created>>
  /\ UNCHANGED <<spanVars, jobVars, task, task_result, ready, nfinished, outer>>
  /\ UNCHANGED <<runJobsVars, batchVars, otherVars>>

\* dispatcher.event(event) called directly on dispatcher d
Event(d) ==
  LET n == Notify(d, propagate, event_handlers,
                  Invocation("event", active[TreeContext], "payload"))
  IN  /\ hlog' = n.calls
      /\ ret' = [NoRet EXCEPT !.op = "event", !.id = active[TreeContext],
                                !.disp = d, !.out = n.error]
      /\ UNCHANGED <<handlerVars, stack, next_id, span_info, created>>
      /\ UNCHANGED <<spanVars, jobVars, task, task_result, ready, nfinished, outer>>
      /\ UNCHANGED <<runJobsVars, batchVars, otherVars>>

\* the thread calls one span-wrapped operation
TreeCall(d, kind, arg) ==
  /\ next_id = 1 /\ Sum(created) = 0
  /\ SpanCall(TreeContext, d, kind, arg)

AnyTreeInit ==
  /\ InitLoop /\ InitRunJobs /\ InitBatch /\ InitCalls /\ InitOther
  /\ propagate \in [Dispatchers -> BOOLEAN]
  /\ active = [c \in Contexts |-> None]
  /\ notes = [id \in SpanIds |-> <<>>]
  /\ parent_id = [id \in SpanIds |-> None]
  /\ workers = DEFAULT_NUM_WORKERS /\ njobs = 0
  /\ behaviour = [i \in Jobs |-> "a"]
  /\ batch_size = 1
  /\ task = [i \in Jobs |-> "none"]

TreeNext ==
  \/ \E d \in Dispatchers, h \in Handlers : AddEventHandler(d, h)
  \/ \E d \in Dispatchers, h \in Handlers : AddSpanHandler(d, h)
  \/ \E d \in Dispatchers : Event(d)
  \/ \E d \in Dispatchers, kind \in Kinds, arg \in Args : TreeCall(d, kind, arg)
  \/ \E d \in Dispatchers : SpanStart(TreeContext, d)
  \/ \E v \in Values : SpanReturn(TreeContext, v)
  \/ \E e \in Errors : SpanRaise(TreeContext, e)

\* any tree of the three dispatchers
SpecAnyTree == AnyTreeInit /\ [][TreeNext]_vars

\* the tree as the library builds it: the root does not propagate
TreeInit == AnyTreeInit /\ ~propagate[RootName]

SpecTree == TreeInit /\ [][TreeNext]_vars

C17_ActiveRestored ==
  \A c \in CallContexts :
    active[c] = IF stack[c] = <<>> THEN None ELSE Top(c).id

\* an inner call raised and the active span id is the outer span's again;
\* in another context a top-level call returned and left the id unset
C17_Witness ==
  \E c, c2 \in CallContexts, i, j \in SpanIds :
    /\ c # c2 /\ Len(stack[c]) = 1 /\ active[c] = Top(c).id
    /\ parent_id[i] = Top(c).id /\ span_info[i].end = "raised"
    /\ stack[c2] = <<>> /\ active[c2] = None
    /\ j # i /\ j # Top(c).id /\ span_info[j].end = "returned"

\* ------------------------------------------------- dispatcher claims
\* the handlers a notification started at d has to invoke, in order: those
\* of each dispatcher on the chain from d up to the first one that does
\* not propagate
RECURSIVE Expected(_, _)
Expected(vis, lists) ==
  IF vis = <<>> THEN <<>>
  ELSE [k \in 1..Len(lists[Head(vis)]) |-> <<Head(vis), lists[Head(vis)][k]>>]
       \o Expected(Tail(vis), lists)

Chain(d) == WalkFrom(d, propagate).visited
\* who was invoked, in order
Invoked(log) == [k \in DOMAIN log |-> <<log[k].disp, log[k].h>>]

\* C12: when the wrapped operation raised, the handlers got first the
\* SpanDropEvent, carrying the span's id and str(e), on every event handler
\* of the chain, then span_drop with the exception on every span handler of
\* the chain; no span_exit was sent and the caller got the exception the
\* operation raised.
C12_DropEventThenDrop ==
  (ret.op = "call" /\ ret.target \in Errors) =>
    LET ne == Len(Expected(Chain(ret.disp), event_handlers)) IN
    /\ ret.out = ret.target
    /\ notes[ret.id] = <<"enter", "dropevent", "drop">>
    /\ Len(hlog) = ne + Len(Expected(Chain(ret.disp), span_handlers))
    /\ \A k \in DOMAIN hlog :
         /\ hlog[k].id = ret.id
         /\ k <= ne => hlog[k].what = "event" /\ hlog[k].data = Str(ret.target)
         /\ k > ne => hlog[k].what = "span_drop" /\ hlog[k].data = ret.target

\* a call raised with an event handler and a span handler on its chain
C12_Witness ==
  /\ ret.op = "call" /\ ret.target \in Errors /\ ret.out = ret.target
  /\ Len(hlog) = 2
  /\ hlog[1].what = "event" /\ hlog[2].what = "span_drop"

\* the handlers the latest step has to invoke, in order
ExpectedInvoked ==
  LET ev == Expected(Chain(ret.disp), event_handlers)
      sp == Expected(Chain(ret.disp), span_handlers)
  IN  CASE ret.op = "event" -> ev
        [] ret.op = "enter" -> sp
        [] ret.op = "call" /\ ret.target \in Errors -> ev \o sp
        [] ret.op = "call" /\ ret.target \notin Errors -> sp
        [] OTHER -> <<>>

\* C13: a notification started at d invokes the handlers of d, then of d's
\* parent and so on, each dispatcher once and child first, and ends without
\* raising at the first dispatcher that does not propagate or after the
\* root, also when every dispatcher of the chain, the root included,
\* propagates.
C13_WalkEndsNormally ==
  ret.op # "none" => (Invoked(hlog) = ExpectedInvoked /\ ret.out # "KeyError")

RECURSIVE Ancestors(_)
Ancestors(d) ==
  IF ParentName[d] \notin Dispatchers THEN {}
  ELSE {ParentName[d]} \cup Ancestors(ParentName[d])

\* C14: when a notification (event, span_enter, span_exit, span_drop) starts
\* at or reaches a dispatcher whose propagate flag is false, no handler of
\* that dispatcher's parent or of any of its ancestors is invoked.
C14_NoAncestorNotified ==
  \A p \in Dispatchers :
    (ret.op # "none" /\ ~propagate[p]
       /\ (p = ret.disp \/ p \in Ancestors(ret.disp))) =>
      \A k \in DOMAIN hlog : hlog[k].disp \notin Ancestors(p)

\* span_exit started at async_utils reached core, which does not propagate:
\* core's span handler was invoked, the root's span handler was not
C14_Witness ==
  /\ ret.op = "call" /\ ret.target \in Values /\ ret.disp = "async_utils"
  /\ propagate["async_utils"] /\ ~propagate["core"]
  /\ span_handlers["root"] # <<>> /\ span_handlers["core"] # <<>>
  /\ Len(hlog) = 1 /\ hlog[1].disp = "core" /\ hlog[1].what = "span_exit"

\* C15: when a handler that raises is on the chain of a notification, every
\* handler of the chain is invoked all the same, those after it on the same
\* dispatcher and those of the propagating ancestors included; the handler's
\* exception never leaves the notification, and a span-wrapped call gives
\* its caller what the target returned or raised.
C15_RaisingHandlerSwallowed ==
  (\E k \in DOMAIN ExpectedInvoked : Raises(ExpectedInvoked[k][2])) =>
    /\ Invoked(hlog) = ExpectedInvoked
    /\ ret.out # "HandlerError"
    /\ ret.op = "call" => ret.out = ret.target

\* span_exit of a call that returned: the raising handler was invoked first,
\* then the well-behaved handler behind it on the same dispatcher
C15_Witness ==
  /\ ret.op = "call" /\ ret.target \in Values /\ ret.out = ret.target
  /\ Len(hlog) = 2
  /\ hlog[1].h = "bad" /\ hlog[2].h = "h1" /\ hlog[1].disp = hlog[2].disp
  /\ hlog[2].what = "span_exit"

\* C19: whatever handlers are registered, a finished span-wrapped call gave
\* its caller exactly what the target returned or raised, and the target
\* was invoked exactly once, with the arguments the caller passed.
C19_Transparent ==
  /\ ret.op = "call" => (ret.out = ret.target /\ ret.seen = <<ret.arg>>)
  /\ \A k \in DOMAIN stack[TreeContext] :
       stack[TreeContext][k].seen = <<stack[TreeContext][k].arg>>

\* an async operation called with "y" raised; a raising handler was on its
\* chain and the caller got the operation's exception
C19_Witness ==
  /\ ret.op = "call" /\ ret.arg = "y" /\ ret.seen = <<"y">>
  /\ ret.target \in Errors /\ ret.out = ret.target
  /\ span_info[ret.id].kind = "async"
  /\ \E k \in DOMAIN hlog : hlog[k].h = "bad"

\* C20: a registration appends the handler at the end of the list of the
\* dispatcher it is made on and changes no other list, neither of another
\* dispatcher nor of the other kind; a notification invokes the handlers of
\* each dispatcher in the order of its list, the order of registration.
C20_AppendToOwnList ==
  [][/\ \A d \in Dispatchers :
         /\ event_handlers'[d] # event_handlers[d] =>
              /\ \E h \in Handlers :
                   event_handlers'[d] = Append(event_handlers[d], h)
              /\ \A d2 \in Dispatchers \ {d} :
                   event_handlers'[d2] = event_handlers[d2]
              /\ span_handlers' = span_handlers
         /\ span_handlers'[d] # span_handlers[d] =>
              /\ \E h \in Handlers :
                   span_handlers'[d] = Append(span_handlers[d], h)
              /\ \A d2 \in Dispatchers \ {d} :
                   span_handlers'[d2] = span_handlers[d2]
              /\ event_handlers' = event_handlers
     /\ ret'.op # "none" => Invoked(hlog') = ExpectedInvoked']_vars

\* "h1" then "bad" were registered on core and nothing elsewhere; an event
\* dispatched at core invoked them in that order
C20_Witness ==
  /\ event_handlers = [d \in Dispatchers |->
                         IF d = "core" THEN <<"h1", "bad">> ELSE <<>>]
  /\ span_handlers = [d \in Dispatchers |-> <<>>]
  /\ ret.op = "event" /\ ret.disp = "core"
  /\ Invoked(hlog) = <<<<"core", "h1">>, <<"core", "bad">>>>

\* C11 as stated: a span-wrapped operation, sync or async, that has been
\* called has entered its span when the call hands control back: no call
\* has returned to its caller with the span not yet entered.
C11_EnteredAtCallTime == \A d \in Dispatchers : created[d] = <<>>

\* C11 amended: a sync operation enters its span in the step of the call
\* itself; calling an async operation only builds a coroutine and touches
\* neither the handlers nor the active span id; its span is entered in the
\* first step of that coroutine.  Either way the span is entered (span_enter
\* notified, active span id set) when the wrapped operation starts to run.
C11_EnteredBeforeFuncRuns ==
  [][/\ \A d \in Dispatchers :
         Len(created'[d]) > Len(created[d]) => UNCHANGED <<notes, active, next_id, stack>>
     /\ \A c \in CallContexts :
         Len(stack'[c]) > Len(stack[c]) =>
           LET f == stack'[c][Len(stack'[c])] IN
           /\ notes'[f.id] = <<"enter">>
           /\ active'[c] = f.id
           /\ f.kind = "sync" => UNCHANGED created
           /\ f.kind = "async" => Sum(created') = Sum(created) - 1]_vars

\* an async operation runs inside its entered span while the coroutine of
\* another call has been built and not yet run
C11_Witness ==
  \E c \in CallContexts :
    /\ stack[c] # <<>> /\ Top(c).kind = "async"
    /\ notes[Top(c).id] = <<"enter">> /\ active[c] = Top(c).id
    /\ Sum(created) > 0

\* ------------------------------------------- two concurrent run_jobs calls
\* variant: one semaphore at module level, shared by every run_jobs call
Pool_ModuleLevel(k) == "A"

\* `semaphore = asyncio.Semaphore(workers)` is executed in the body of
\* run_jobs: each call creates the semaphore its workers close over
Pool(k) == k

\* variant: the active span id is one variable shared by all tasks
TwoEnter_SharedVariable(act, par, c) ==
  [active |-> [x \in TwoContexts |-> c], parent |-> [par EXCEPT ![c] = act[c]]]

\* wrapper prologue in context c: token = active_span_id.set(id_), the
\* parent id is the value the variable had in this context
TwoEnter(act, par, c) ==
  [active |-> [act EXCEPT ![c] = c], parent |-> [par EXCEPT ![c] = ParentOf(act, c)]]

TwoHolding(k) == {i \in TwoJobs : tw_task[k][i] \in Holding}

TwoTagged(k, hs) == [x \in 1..Len(hs) |-> <<k, hs[x][1], hs[x][2]>>]

\* the first step of call k: `await run_jobs(jobs, workers=w)` with n jobs
TwoStart(k, w, n) ==
  /\ tw_pc[k] = "idle"
  /\ LET e == TwoEnter(tw_active, tw_parent, <<k, 0>>)
         n0 == SpanEnter(tw_notes, <<k, 0>>)
     IN
     /\ tw_workers' = [tw_workers EXCEPT ![k] = w]
     /\ tw_njobs' = [tw_njobs EXCEPT ![k] = n]
     /\ tw_sem' = [tw_sem EXCEPT ![Pool(k)] = w]
     /\ tw_parent' = e.parent
     /\ IF GatherNothing(n)
        THEN /\ tw_notes' = SpanFinish(n0, <<k, 0>>, propagate, SpanDispatcher,
                                       FALSE).notes
             /\ tw_active' = ResetToken(e.active, <<k, 0>>, e.parent[<<k, 0>>], "a")
             /\ tw_pc' = [tw_pc EXCEPT ![k] = "returned"]
             /\ UNCHANGED <<tw_task, tw_ready>>
        ELSE /\ tw_notes' = n0
             \* each worker task runs in a copy of the creating context
             /\ tw_active' = [c \in TwoContexts |->
                                IF c[1] = k /\ c[2] \in 1..n
                                THEN e.active[<<k, 0>>] ELSE e.active[c]]
             /\ tw_task' = [tw_task EXCEPT ![k] =
                              [i \in TwoJobs |-> IF i <= n THEN "pending" ELSE "none"]]
             /\ tw_ready' = tw_ready \o [i \in 1..n |-> <<k, "step", i>>]
             /\ tw_pc' = [tw_pc EXCEPT ![k] = "gather"]
  /\ UNCHANGED <<tw_waiters, tw_nfin>>

\* `return await job` ended in worker i of call k: __aexit__ releases the
\* permit, the wrapper epilogue exits the span, the done-callback is queued;
\* v, ws, t: the semaphore and the tasks as the step found them
TwoJobEnds(k, i, v, ws, t, queue, act, nts) ==
  LET r == Release(v, ws, t) IN
  /\ tw_sem' = [tw_sem EXCEPT ![Pool(k)] = r.value]
  /\ tw_task' = [tw_task EXCEPT ![k] = [r.task EXCEPT ![i] = "done"]]
  /\ tw_ready' = (queue \o TwoTagged(k, r.wake)) \o << <<k, "cb", i>> >>
  /\ tw_notes' = SpanFinish(nts, <<k, i>>, propagate, SpanDispatcher, FALSE).notes
  /\ tw_active' = ResetToken(act, <<k, i>>, tw_parent'[<<k, i>>], "a")

\* first step of the task of worker i of call k
TwoWorkerStart(k, i) ==
  /\ tw_ready # <<>> /\ Head(tw_ready) = <<k, "step", i>>
  /\ tw_task[k][i] = "pending"
  /\ LET e == TwoEnter(tw_active, tw_parent, <<k, i>>)
         n0 == SpanEnter(tw_notes, <<k, i>>)
         v == tw_sem[Pool(k)]
         ws == tw_waiters[Pool(k)]
     IN
     /\ tw_parent' = e.parent
     /\ IF Locked(v, ws)
        THEN /\ tw_waiters' = [tw_waiters EXCEPT ![Pool(k)] = Append(@, i)]
             /\ tw_task' = [tw_task EXCEPT ![k][i] = "waiting"]
             /\ tw_ready' = Tail(tw_ready)
             /\ tw_active' = e.active /\ tw_notes' = n0
             /\ UNCHANGED tw_sem
        ELSE \E imm \in BOOLEAN :
               IF imm
               THEN /\ TwoJobEnds(k, i, v - 1, ws, tw_task[k], Tail(tw_ready),
                                  e.active, n0)
                    /\ UNCHANGED tw_waiters
               ELSE /\ tw_sem' = [tw_sem EXCEPT ![Pool(k)] = v - 1]
                    /\ tw_task' = [tw_task EXCEPT ![k][i] = "running"]
                    /\ tw_ready' = Tail(tw_ready)
                    /\ tw_active' = e.active /\ tw_notes' = n0
                    /\ UNCHANGED tw_waiters
  /\ UNCHANGED <<tw_pc, tw_workers, tw_njobs, tw_nfin>>

\* the waiter's future was resolved: acquire() continues after `await fut`
TwoWorkerResume(k, i) ==
  /\ tw_ready # <<>> /\ Head(tw_ready) = <<k, "step", i>>
  /\ tw_task[k][i] = "woken"
  /\ LET v == tw_sem[Pool(k)]
         ws == Remove(tw_waiters[Pool(k)], i)
         w == IF v > 0 THEN WakeUpNext(v, ws, tw_task[k])
              ELSE [value |-> v, task |-> tw_task[k], wake |-> <<>>]
         queue == Tail(tw_ready) \o TwoTagged(k, w.wake)
     IN
     /\ tw_waiters' = [tw_waiters EXCEPT ![Pool(k)] = ws]
     /\ tw_parent' = tw_parent
     /\ \E imm \in BOOLEAN :
          IF imm
          THEN TwoJobEnds(k, i, w.value, ws, w.task, queue, tw_active, tw_notes)
          ELSE /\ tw_sem' = [tw_sem EXCEPT ![Pool(k)] = w.value]
               /\ tw_task' = [tw_task EXCEPT ![k] = [w.task EXCEPT ![i] = "running"]]
               /\ tw_ready' = queue
               /\ UNCHANGED <<tw_active, tw_notes>>
  /\ UNCHANGED <<tw_pc, tw_workers, tw_njobs, tw_nfin>>

\* the external event the running job awaits completes
TwoJobEvent(k, i) ==
  /\ tw_task[k][i] = "running"
  /\ \A x \in 1..Len(tw_ready) : tw_ready[x] # <<k, "step", i>>
  /\ tw_ready' = Append(tw_ready, <<k, "step", i>>)
  /\ UNCHANGED <<tw_pc, tw_workers, tw_njobs, tw_sem, tw_waiters, tw_task,
                 tw_nfin, tw_active, tw_parent, tw_notes>>

\* the job resumes and returns
TwoJobFinish(k, i) ==
  /\ tw_ready # <<>> /\ Head(tw_ready) = <<k, "step", i>>
  /\ tw_task[k][i] = "running"
  /\ tw_parent' = tw_parent
  /\ TwoJobEnds(k, i, tw_sem[Pool(k)], tw_waiters[Pool(k)], tw_task[k],
                Tail(tw_ready), tw_active, tw_notes)
  /\ UNCHANGED <<tw_pc, tw_workers, tw_njobs, tw_waiters, tw_nfin>>

\* gather's done-callback of child i of call k
TwoCallback(k, i) ==
  /\ tw_ready # <<>> /\ Head(tw_ready) = <<k, "cb", i>>
  /\ tw_nfin' = [tw_nfin EXCEPT ![k] = @ + 1]
  /\ tw_ready' = IF tw_nfin[k] + 1 = tw_njobs[k]
                 THEN Append(Tail(tw_ready), <<k, "rj", 0>>)
                 ELSE Tail(tw_ready)
  /\ UNCHANGED <<tw_pc, tw_workers, tw_njobs, tw_sem, tw_waiters, tw_task,
                 tw_active, tw_parent, tw_notes>>

\* `results = await asyncio.gather(*pool_jobs)` resumes in call k
TwoResume(k) ==
  /\ tw_ready # <<>> /\ Head(tw_ready) = <<k, "rj", 0>>
  /\ tw_pc[k] = "gather"
  /\ tw_notes' = SpanFinish(tw_notes, <<k, 0>>, propagate, SpanDispatcher,
                            FALSE).notes
  /\ tw_active' = ResetToken(tw_active, <<k, 0>>, tw_parent[<<k, 0>>], "a")
  /\ tw_pc' = [tw_pc EXCEPT ![k] = "returned"]
  /\ tw_ready' = Tail(tw_ready)
  /\ UNCHANGED <<tw_workers, tw_njobs, tw_sem, tw_waiters, tw_task, tw_nfin,
                 tw_parent>>

TwoNext ==
  /\ \/ \E k \in TwoCalls, w \in 1..MaxWorkers, n \in 0..MaxTwoJobs :
          TwoStart(k, w, n)
     \/ \E k \in TwoCalls, i \in TwoJobs : TwoWorkerStart(k, i)
     \/ \E k \in TwoCalls, i \in TwoJobs : TwoWorkerResume(k, i)
     \/ \E k \in TwoCalls, i \in TwoJobs : TwoJobEvent(k, i)
     \/ \E k \in TwoCalls, i \in TwoJobs : TwoJobFinish(k, i)
     \/ \E k \in TwoCalls, i \in TwoJobs : TwoCallback(k, i)
     \/ \E k \in TwoCalls : TwoResume(k)
  /\ UNCHANGED <<spanVars, jobVars, task, task_result, ready, nfinished, outer>>
  /\ UNCHANGED <<runJobsVars, batchVars, callVars, managerVars, ar_log, loopVars, hookVars>>

SpecTwo == CallInit /\ [][TwoNext]_vars

\* C23: the permit pool belongs to one run_jobs call. With two concurrent
\* calls, each call's permits in use equal the number of its own jobs that
\* hold one and never exceed its own limit, whatever the other call does,
\* and a job waits for a permit only while its own call's permits are all
\* taken by jobs of that call.
C23_PoolPerCall ==
  \A k \in TwoCalls :
    tw_pc[k] # "idle" =>
      /\ Cardinality(TwoHolding(k)) <= tw_workers[k]
      /\ tw_sem[k] + Cardinality(TwoHolding(k)) = tw_workers[k]
      /\ (\E i \in TwoJobs : tw_task[k][i] = "waiting") =>
            Cardinality(TwoHolding(k)) = tw_workers[k]
      /\ \A x \in 1..Len(tw_waiters[k]) :
            tw_task[k][tw_waiters[k][x]] \in {"waiting", "woken"}

\* W1 = 1 and W2 = 2: W1 + W2 jobs run at the same moment while a job of
\* the first call waits for that call's only permit
C23_Witness ==
  /\ tw_workers["A"] = 1 /\ tw_workers["B"] = 2
  /\ Cardinality({i \in TwoJobs : tw_task["A"][i] = "running"}) = 1
  /\ Cardinality({i \in TwoJobs : tw_task["B"][i] = "running"}) = 2
  /\ \E i \in TwoJobs : tw_task["A"][i] = "waiting"

\* C29: every worker span opened inside a run_jobs call has the run_jobs
\* span of that call as parent id, for every interleaving of the worker
\* tasks of the call and of a concurrent call: never a sibling's span and
\* never a span of the other call.
C29_ParentIsOwnRunJobsSpan ==
  \A k \in TwoCalls :
    /\ tw_notes[<<k, 0>>] # <<>> => tw_parent[<<k, 0>>] = NoSpan
    /\ \A i \in TwoJobs :
         tw_notes[<<k, i>>] # <<>> => tw_parent[<<k, i>>] = <<k, 0>>

\* a worker of call A entered its span while a worker of call B and a
\* sibling were inside theirs
C29_Witness ==
  /\ tw_task["A"][1] = "running" /\ tw_active[<<"A", 1>>] = <<"A", 1>>
  /\ tw_task["B"][1] = "running" /\ tw_active[<<"B", 1>>] = <<"B", 1>>
  /\ tw_task["A"][2] \in {"running", "waiting"}
  /\ tw_parent[<<"A", 2>>] = <<"A", 0>>
  /\ tw_parent[<<"B", 1>>] = <<"B", 0>>

\* ------------------------------------------------------------------ Manager
\* the names a dispatcher is given, and the parent names: a name or the
\* default ""
ParentNames == Dispatchers \cup {""}

\* Dispatcher(name=n, parent_name=p, manager=m): the constructor stores the
\* two names as given
NewDispatcher(n, p) ==
  /\ Len(mg_objs) < 1 + MaxObjects
  /\ mg_objs' = Append(mg_objs, [name |-> n, parent_name |-> p])
  /\ UNCHANGED <<mg_dispatchers, mg_added>>

\* variant: add_dispatcher stores the dispatcher under its name in any case
AddDispatcher_Overwrite(ds, name, o) == [ds EXCEPT ![name] = o]

\* Manager.add_dispatcher: `if d.name in self.dispatchers: pass`
\* `else: self.dispatchers[d.name] = d`
AddDispatcher(ds, name, o) ==
  IF ds[name] # 0 THEN ds ELSE [ds EXCEPT ![name] = o]

\* manager.add_dispatcher(d) for a constructed dispatcher object d
ManagerAdd(o) ==
  /\ Len(mg_added) < MaxAdds
  /\ mg_dispatchers' = AddDispatcher(mg_dispatchers, mg_objs[o].name, o)
  /\ mg_added' = Append(mg_added, o)
  /\ UNCHANGED mg_objs

ManagerNext ==
  /\ \/ \E n \in Dispatchers, p \in ParentNames : NewDispatcher(n, p)
     \/ \E o \in 1..Len(mg_objs) : ManagerAdd(o)
  /\ UNCHANGED <<spanVars, jobVars, task, task_result, ready, nfinished, outer>>
  /\ UNCHANGED <<runJobsVars, batchVars, callVars, twoVars, ar_log, loopVars, hookVars>>

SpecManager == CallInit /\ [][ManagerNext]_vars

\* the objects registered so far, the root first
Registrations == <<1>> \o mg_added

\* the first object registered under name n, 0 if there is none
FirstRegistered(n) ==
  LET at == {x \in 1..Len(Registrations) : mg_objs[Registrations[x]].name = n}
  IN  IF at = {} THEN 0 ELSE Registrations[Min(at)]

\* C21: add_dispatcher is idempotent by name: each name maps to the first
\* dispatcher registered under it (for the root's name: the root), and a
\* call with a name already present leaves the whole mapping as it was.
C21_FirstRegistrationWins ==
  [][/\ \A n \in Dispatchers : mg_dispatchers'[n] = FirstRegistered(n)'
     /\ \A o \in 1..Len(mg_objs) :
          (mg_added' = Append(mg_added, o) /\ mg_dispatchers[mg_objs[o].name] # 0)
            => mg_dispatchers' = mg_dispatchers]_vars

\* two different objects with one name were added, and another object with
\* the root's name; the mapping holds the first and the root
C21_Witness ==
  /\ Len(mg_added) = 3 /\ Len(mg_objs) = 3
  /\ mg_objs[2].name = RootName /\ mg_added[2] = 2
  /\ mg_objs[3].name = "core"
  /\ mg_added[1] = 3 /\ mg_added[3] = 3
  /\ mg_dispatchers[RootName] = 1 /\ mg_dispatchers["core"] = 3

\* the parent_name of the dispatcher registered under n
RegisteredParent(n) == mg_objs[mg_dispatchers[n]].parent_name

\* following parent links from n reaches the root without meeting a name
\* that is not registered or that was seen before
RECURSIVE ReachesRoot(_, _)
ReachesRoot(n, seen) ==
  IF n = RootName THEN TRUE
  ELSE IF n \notin Dispatchers \/ n \in seen THEN FALSE
  ELSE IF mg_dispatchers[n] = 0 THEN FALSE
  ELSE ReachesRoot(RegisteredParent(n), seen \cup {n})

\* C22 as stated: after any constructions and add_dispatcher calls, the
\* parent_name of every registered dispatcher other than the root is a
\* registered name, and the parent links from it lead to the root without
\* a cycle.
C22_ParentsLeadToRoot ==
  \A n \in Dispatchers :
    (mg_dispatchers[n] # 0 /\ n # RootName) =>
      /\ RegisteredParent(n) \in Dispatchers
      /\ mg_dispatchers[RegisteredParent(n)] # 0
      /\ ReachesRoot(n, {})

\* -------------------------------------------------------------- asyncio_run
\* what the coroutine handed to asyncio_run does when it is run: it returns
\* a value or raises an exception of some class
CoroBehaviours ==
  [kind : {"return"}, what : Values] \cup
  [kind : {"raise"}, what : {"RuntimeError", "ValueError"}]

NoError == [class |-> "none", msg |-> "none"]
NestedAsync == [class |-> "RuntimeError", msg |-> "Nested async detected"]
NoRunningLoop == [class |-> "RuntimeError", msg |-> "no running event loop"]
CannotRun ==
  [class |-> "RuntimeError",
   msg |-> "asyncio.run() cannot be called from a running event loop"]

\* the body of the try statement: get_running_loop() raises without a
\* running loop; a loop it returns is running, so the if branch raises
TryBody(running) ==
  IF running THEN [raised |-> NestedAsync, ran |-> FALSE, out |-> "none"]
  ELSE [raised |-> NoRunningLoop, ran |-> FALSE, out |-> "none"]

\* asyncio.run(coro): refuses when a loop is running in this thread, else
\* runs the coroutine to completion on a new loop
StdRun(running, beh) ==
  IF running THEN [raised |-> CannotRun, ran |-> FALSE, out |-> "none"]
  ELSE IF beh.kind = "raise"
       THEN [raised |-> [class |-> beh.what, msg |-> "job"], ran |-> TRUE,
             out |-> "none"]
       ELSE [raised |-> NoError, ran |-> TRUE, out |-> beh.what]

\* asyncio_run(coro): try body, then `except RuntimeError: return
\* asyncio.run(coro)` for every RuntimeError raised in the try body
AsyncioRunCall(running, beh) ==
  LET t == TryBody(running) IN
  IF t.raised.class = "RuntimeError" THEN StdRun(running, beh) ELSE t

asyncio_run(running, beh) ==
  /\ Len(ar_log) < MaxRuns
  /\ ar_log' = Append(ar_log, [running |-> running, coro |-> beh,
                               res |-> AsyncioRunCall(running, beh)])
  /\ UNCHANGED <<spanVars, jobVars, task, task_result, ready, nfinished, outer>>
  /\ UNCHANGED <<runJobsVars, batchVars, callVars, twoVars, managerVars, loopVars,
                 hookVars>>

AsyncRunNext == \E running \in BOOLEAN, beh \in CoroBehaviours : asyncio_run(running, beh)

SpecAsyncRun == CallInit /\ [][AsyncRunNext]_vars

\* C26 as stated: called while a loop is running in the calling thread,
\* asyncio_run fails with the "Nested async detected" RuntimeError and does
\* not run the coroutine; with no running loop it runs the coroutine to
\* completion on a new loop and returns its result.
C26_NestedAsyncDetected ==
  \A x \in 1..Len(ar_log) :
    LET c == ar_log[x] IN
    /\ c.running => (c.res.raised = NestedAsync /\ ~c.res.ran)
    /\ (~c.running /\ c.coro.kind = "return") =>
         (c.res.ran /\ c.res.raised = NoError /\ c.res.out = c.coro.what)

\* ------------------------------------------------------------ LoopComponent
\* max_iterations as configured; should_exit_fn absent or a predicate on the
\* output, given by the runs whose output it accepts; add_output_to_input_fn
\* absent or present
MaxIterations == (-1)..MaxIter
ExitSets == SUBSET (1..MaxIter)

\* self.pipeline.run_component(**current_input) in the r-th run: the output
\* is determined by the input and the run
PipelineRun(cur, r) == [input |-> cur, run |-> r]

\* add_output_to_input_fn(current_input, output): the input with the output
\* added
Combine(cur, output) == Append(cur, output.run)

\* `current_input = kwargs`
LoopStart(max, has_exit, exits, add) ==
  [NoLoop EXCEPT !.pc = "loop", !.max = max, !.has_exit = has_exit,
                 !.exits = exits, !.add = add]

\* `for i in range(self.max_iterations)` yields another i
More(st) == st.i < st.max

\* the body of the for statement
Body(st) ==
  LET r == st.i + 1
      output == PipelineRun(st.cur, r)
      should_exit == st.has_exit /\ r \in st.exits
      adding == ~should_exit /\ st.add
  IN  [st EXCEPT !.i = r, !.out = output, !.fed = Append(@, st.cur),
                 !.pc = IF should_exit THEN "break" ELSE "loop",
                 !.cur = IF adding THEN Combine(st.cur, output) ELSE @,
                 !.adds = IF adding THEN Append(@, r) ELSE @]

\* `return output`: reading a local that was never assigned raises
Return(st) ==
  IF st.out = Unbound
  THEN [st EXCEPT !.pc = "raised", !.error = "UnboundLocalError"]
  ELSE [st EXCEPT !.pc = "returned"]

\* the for statement and the return after it
RECURSIVE RunLoop(_)
RunLoop(st) ==
  IF st.pc = "loop" /\ More(st) THEN RunLoop(Body(st)) ELSE Return(st)

\* LoopComponent._run_component(**kwargs)
RunComponent(max, has_exit, exits, add) ==
  /\ lp_sync.pc = "idle"
  /\ lp_sync' = RunLoop(LoopStart(max, has_exit, exits, add))
  /\ UNCHANGED lp_async

\* LoopComponent._arun_component(**kwargs) is started
ArunStart(max, has_exit, exits, add) ==
  /\ lp_async.pc = "idle"
  /\ lp_async' = LET st == LoopStart(max, has_exit, exits, add)
                 IN  IF More(st) THEN st ELSE Return(st)
  /\ UNCHANGED lp_sync

\* `await self.pipeline.arun_component(**current_input)` completes; the
\* coroutine goes on to its next await or to its return
ArunStep ==
  /\ lp_async.pc = "loop"
  /\ lp_async' = LET st == Body(lp_async)
                 IN  IF st.pc = "loop" /\ More(st) THEN st ELSE Return(st)
  /\ UNCHANGED lp_sync

LoopNext ==
  /\ \/ \E max \in MaxIterations, has_exit \in BOOLEAN, exits \in ExitSets,
            add \in BOOLEAN :
          /\ ~has_exit => exits = {}
          /\ \/ RunComponent(max, has_exit, exits, add)
             \/ ArunStart(max, has_exit, exits, add)
     \/ ArunStep
  /\ UNCHANGED <<spanVars, jobVars, task, task_result, ready, nfinished, outer>>
  /\ UNCHANGED <<runJobsVars, batchVars, callVars, twoVars, managerVars, ar_log,
                 hookVars>>

SpecLoop == CallInit /\ [][LoopNext]_vars

\* the input fed to run r: the original input, with the outputs of the
\* earlier runs added when add_output_to_input_fn is present
ExpectedInput(st, r) ==
  IF st.add THEN OriginalInput \o [k \in 1..(r - 1) |-> k] ELSE OriginalInput

\* the first run whose output should_exit_fn accepts, 0 if there is none
FirstExit(st) ==
  LET hit == {r \in 1..st.max : st.has_exit /\ r \in st.exits}
  IN  IF hit = {} THEN 0 ELSE Min(hit)

\* what C27 says of a finished call
AsClaimed(st) ==
  LET runs == Len(st.fed) IN
  /\ runs <= st.max \/ runs = 0
  /\ runs = IF FirstExit(st) # 0 THEN FirstExit(st)
            ELSE IF st.max > 0 THEN st.max ELSE 0
  /\ \A r \in 1..runs : st.fed[r] = ExpectedInput(st, r)
  /\ FirstExit(st) # 0 => \A k \in 1..Len(st.adds) : st.adds[k] # FirstExit(st)
  /\ st.pc = "returned"
  /\ st.out = PipelineRun(st.fed[runs], runs)

\* C27 as stated: for every configured max_iterations, _run_component and
\* _arun_component run the pipeline at most max_iterations times, stop right
\* after the first run whose output should_exit_fn accepts without calling
\* add_output_to_input_fn for it, feed the later runs the original or the
\* combined input, and return the output of the last run.
C27_ReturnsLastOutput ==
  /\ lp_sync.pc \in {"returned", "raised"} => AsClaimed(lp_sync)
  /\ lp_async.pc \in {"returned", "raised"} => AsClaimed(lp_async)

\* --------------------------------------------------------- ExceptionCapture
\* an uncaught exception: its class and message, and the exceptions chained
\* to it (__cause__ / __context__), nearest first
ExcTypes == {"ZeroDivisionError", "ValueError"}
MessageOf(t) == IF t = "ZeroDivisionError" THEN "division by zero" ELSE "bad value"
Entry(t) == [type |-> t, value |-> MessageOf(t)]
Causes == UNION {[1..n -> {"KeyError"}] : n \in 0..MaxChain}

Reverse(q) == [x \in 1..Len(q) |-> q[Len(q) + 1 - x]]

\* exceptions_from_error_tuple((exc_type, exc_value, exc_traceback)): one
\* entry with "type" and "value" per exception of the chain; the order of
\* the entries of a chained exception is the helper's choice
ExceptionsFromErrorTuple(t, causes, raised_first) ==
  LET walk == <<Entry(t)>> \o [x \in 1..Len(causes) |-> Entry(causes[x])]
  IN  IF raised_first THEN walk ELSE Reverse(walk)

\* how a capture step goes wrong: exceptions_from_error_tuple raises, it
\* returns an empty list (the subscript [0] raises IndexError), or
\* client.capture raises; all are exceptions derived from Exception
FailKinds == {"none", "format", "empty", "client"}

Effect(kind, who, thread) ==
  [kind |-> kind, who |-> who, thread |-> thread, event |-> "none",
   type |-> "none", message |-> "none", list |-> <<>>]

\* variant: capture_exception without its try/except
CaptureException_NoExcept(k, trace, fail, thread) ==
  IF fail # "none" THEN [effects |-> <<>>, raised |-> TRUE]
  ELSE [effects |-> << [Effect("event", k, thread) EXCEPT
                         !.event = "$exception",
                         !.type = trace[1].type,
                         !.message = trace[1].value,
                         !.list = trace] >>,
        raised |-> FALSE]

\* ExceptionCapture.capture_exception of instance k: the properties of the
\* event are taken from the first entry of the list; `except Exception`
\* logs the failure and returns
CaptureException(k, trace, fail, thread) ==
  IF fail # "none"
  THEN [effects |-> <<Effect("logged", k, thread)>>, raised |-> FALSE]
  ELSE [effects |-> << [Effect("event", k, thread) EXCEPT
                         !.event = "$exception",
                         !.type = trace[1].type,
                         !.message = trace[1].value,
                         !.list = trace] >>,
        raised |-> FALSE]

\* sys.excepthook h is called with the error tuple: the interpreter's hook
\* prints the traceback; ExceptionCapture.exception_handler captures and
\* then calls self.original_excepthook
RECURSIVE RunHook(_, _, _, _)
RunHook(h, orig, trace, fails) ==
  IF h = 0 THEN <<Effect("hook", 0, FALSE)>>
  ELSE LET c == CaptureException(h, trace, fails[h], FALSE)
       IN  (<<Effect("hook", h, FALSE)>> \o c.effects)
             \o (IF c.raised THEN <<>> ELSE RunHook(orig[h], orig, trace, fails))

\* ExceptionCapture(client): __init__ saves the hook in place and installs
\* its own handlers
InstallCapture ==
  /\ hk_pc = "running"
  /\ Len(hk_orig) < MaxCaptures
  /\ hk_orig' = Append(hk_orig, hk_sys)
  /\ hk_sys' = Len(hk_orig) + 1
  /\ hk_thread' = Len(hk_orig) + 1
  /\ UNCHANGED <<hk_log, hk_pc>>

\* an exception reaches the top of the main thread: the interpreter calls
\* sys.excepthook and the process exits
MainException(t, causes, raised_first, fails) ==
  /\ hk_pc = "running"
  /\ hk_log' = hk_log \o RunHook(hk_sys, hk_orig,
                                 ExceptionsFromErrorTuple(t, causes, raised_first),
                                 fails)
  /\ hk_pc' = "exited"
  /\ UNCHANGED <<hk_orig, hk_sys, hk_thread>>

ThreadErrors == Cardinality({x \in 1..Len(hk_log) : hk_log[x].kind = "thread"})

\* an exception reaches the top of another thread: threading.excepthook
ThreadException(t, causes, raised_first, fail) ==
  /\ hk_pc = "running"
  /\ ThreadErrors < MaxThreadErrors
  /\ hk_log' = (hk_log \o <<Effect("thread", hk_thread, TRUE)>>)
                 \o (IF hk_thread = 0 THEN <<>>
                     ELSE CaptureException(hk_thread,
                            ExceptionsFromErrorTuple(t, causes, raised_first),
                            fail, TRUE).effects)
  /\ UNCHANGED <<hk_orig, hk_sys, hk_thread, hk_pc>>

HookNext ==
  /\ \/ InstallCapture
     \/ \E t \in ExcTypes, causes \in Causes, raised_first \in BOOLEAN,
            fails \in [1..MaxCaptures -> FailKinds] :
          /\ \A k \in 1..MaxCaptures : k > Len(hk_orig) => fails[k] = "none"
          /\ causes = <<>> => raised_first
          /\ MainException(t, causes, raised_first, fails)
     \/ \E t \in ExcTypes, causes \in Causes, raised_first \in BOOLEAN,
            fail \in FailKinds :
          /\ causes = <<>> => raised_first
          /\ hk_thread = 0 => fail = "none"
          /\ ThreadException(t, causes, raised_first, fail)
  /\ UNCHANGED <<spanVars, jobVars, task, task_result, ready, nfinished, outer>>
  /\ UNCHANGED <<runJobsVars, batchVars, callVars, twoVars, managerVars, ar_log,
                 loopVars>>

SpecHook == CallInit /\ [][HookNext]_vars

\* the entries the main thread's uncaught exception added to the log
MainSegment == {x \in 1..Len(hk_log) : ~hk_log[x].thread}

\* C25: when the main thread's uncaught exception reaches the handler of an
\* installed ExceptionCapture, the capture step comes first: either exactly
\* one "$exception" event goes to that instance's client, its properties
\* being the type and message of the first entry of the exception list and
\* the list itself (for an exception without a chain: its own type and
\* message), or the failure of the step is logged; in both cases the hook
\* that was installed before this instance is called next, down to the
\* interpreter's hook, which is called last and once.
C25_CaptureThenOriginalHook ==
  hk_pc = "exited" =>
    /\ \E x \in MainSegment : hk_log[x] = Effect("hook", hk_sys, FALSE)
    /\ hk_log[Len(hk_log)] = Effect("hook", 0, FALSE)
    /\ Cardinality({x \in MainSegment : hk_log[x] = Effect("hook", 0, FALSE)}) = 1
    /\ \A x \in MainSegment :
         (hk_log[x].kind = "hook" /\ hk_log[x].who # 0) =>
           LET k == hk_log[x].who
               c == hk_log[x + 1]
           IN  /\ x + 2 <= Len(hk_log)
               /\ c.who = k /\ c.kind \in {"event", "logged"}
               /\ c.kind = "event" =>
                    /\ c.event = "$exception"
                    /\ c.list # <<>>
                    /\ c.type = c.list[1].type /\ c.message = c.list[1].value
                    /\ Len(c.list) = 1 =>
                         (c.type \in ExcTypes /\ c.message = MessageOf(c.type))
               /\ hk_log[x + 2] = Effect("hook", hk_orig[k], FALSE)
               /\ Cardinality({y \in MainSegment : hk_log[y].who = k
                                  /\ hk_log[y].kind \in {"event", "logged"}}) = 1

\* two instances installed; the later one's capture step failed and was
\* logged, the earlier one sent its event, the interpreter's hook ran last
C25_Witness ==
  /\ hk_pc = "exited" /\ Len(hk_orig) = 2
  /\ \E x \in MainSegment :
       /\ hk_log[x] = Effect("hook", 2, FALSE)
       /\ hk_log[x + 1] = Effect("logged", 2, FALSE)
       /\ hk_log[x + 2] = Effect("hook", 1, FALSE)
       /\ hk_log[x + 3].kind = "event" /\ hk_log[x + 3].who = 1
       /\ hk_log[x + 3].type = "ZeroDivisionError"
       /\ hk_log[x + 4] = Effect("hook", 0, FALSE)

====
